---- MODULE Spec2Model ----
(***************************************************************************)
(* State-machine model of the wplace-ar viewer: the 3x3 tile grid with its *)
(* asynchronous texture swap (tiles.js), the location tracker with its     *)
(* manual override (geolocation.js), the handlers of ui.js that drive      *)
(* them, the orientation filter and render loop (controls.js, main.js) and *)
(* the caching proxy worker.                                               *)
(*                                                                         *)
(* Coordinates are integers in microdegrees.  latLonToTile is computed in  *)
(* exact rational arithmetic; the two transcendental functions of utils.js *)
(* (the Mercator ordinate and the haversine distance) are tabulated, from  *)
(* the source formulas, at the coordinates the model uses.                 *)
(***************************************************************************)
EXTENDS Integers, Sequences, FiniteSets, TLC

VARIABLES
  \* tiles.js module state and the scene graph it owns
  SKY_HEIGHT, tileGrid, centerTile, currentPixelOffsets, tileGroup,
  planes, sceneChildren, rebuilds,
  \* texture fetches: in flight, stalled for good, tiles the proxy fails on
  loads, hung, failingTiles, callbacks,
  \* ui.js: the opacity slider read by getOpacityCallback
  opacitySlider,
  \* geolocation.js module state
  gpsOverride, currentLocation, selectedLocation, isLiveTrackingEnabled,
  gpsUpdateInterval, gpsTrackingIntervalId, lastKnownPosition,
  modalOriginalSettings,
  \* platform: interval timers, geolocation API and its pending queries, alerts
  timers, nextTimerId, hasGeolocation, geoQueries, alerts,
  \* ui.js / video.js / controls.js / map.js state
  started, startCalls, videoStarted, hasDeviceOrientation, controlMode,
  modalOpen, mapInitPending, locationMap, liveTrackingToggle, device,
  \* history: the handler that ran last, and whether Live mode was entered
  \* without a timer sample having been delivered since
  ev, firstSamplePending,
  \* the last call of latLonToTile with its result
  proj,
  \* controls.js: the reading DeviceOrientationControls holds, the smoothing
  \* state, the camera's rotation, and what the last animation frame did
  deviceOrientation, smoothQ, orientationInitialized, lastT, cameraQuaternion,
  frame,
  \* the proxy worker: the edge cache, the requests handled so far, and the
  \* cache.put calls handed to ctx.waitUntil that have not landed yet
  cache, workerLog, waitUntil,
  \* controls.js: the mouse look state and the Euler rotation it gives the
  \* camera (x pitch, y yaw), in milliradians
  isMouseDown, mouseX, mouseY, cameraRotationX, cameraRotationY,
  cameraRotation

tileVars == <<SKY_HEIGHT, tileGrid, centerTile, currentPixelOffsets, tileGroup,
              planes, sceneChildren, rebuilds, loads, callbacks>>
netVars == <<hung, failingTiles>>
geoVars == <<gpsOverride, currentLocation, selectedLocation,
             isLiveTrackingEnabled, gpsUpdateInterval, gpsTrackingIntervalId,
             lastKnownPosition, modalOriginalSettings, timers, nextTimerId,
             hasGeolocation, geoQueries, alerts, firstSamplePending>>
uiVars == <<started, startCalls, videoStarted, hasDeviceOrientation,
            controlMode, modalOpen, mapInitPending, locationMap,
            liveTrackingToggle, opacitySlider, device>>
ctrlVars == <<deviceOrientation, smoothQ, orientationInitialized, lastT,
              cameraQuaternion, frame>>
workerVars == <<cache, workerLog, waitUntil>>
mouseVars == <<isMouseDown, mouseX, mouseY, cameraRotationX, cameraRotationY,
               cameraRotation>>
otherVars == <<proj, ctrlVars, workerVars, mouseVars>>
vars == <<tileVars, netVars, geoVars, uiVars, ev, otherVars>>

NULL == [null |-> TRUE]

-----------------------------------------------------------------------------
(* config.js *)

ZOOM_LEVEL == 11
TILE_SIZE == 1000
INITIAL_SKY_HEIGHT == 200
GPS_UPDATE_INTERVAL == 25
GPS_DISTANCE_THRESHOLD == 15
\* time constants of the orientation filter, in microseconds
TAU_BASE == 30000
TAU_SLOW == 120000
FALLBACK == [lat |-> 43642567, lon |-> -79387054]

-----------------------------------------------------------------------------
(* Bounds of the model and the inputs it draws from *)

MaxRebuilds == 2          \* loadTileGridTextures calls, SpecTiles
MaxOverlapRebuilds == 3   \* loadTileGridTextures calls, SpecOverlap
MaxHung == 1              \* fetches that never settle, SpecOverlap
MaxGeoRebuilds == 2       \* loadTileGridTextures calls, SpecGeo
MaxTimers == 2            \* setInterval calls
MaxPendingQueries == 2    \* getCurrentPosition calls not yet answered
MaxAlerts == 2            \* fallback notices shown
MaxStartClicks == 1       \* clicks on the start button
MaxRepeatedClicks == 2    \* clicks on the start button, SpecStart
MaxMapInits == 1          \* initializeMap timeouts not yet run

\* 11 m north of FALLBACK, and 15 km east of it
PNear == [lat |-> 43642667, lon |-> -79387054]
PFar == [lat |-> 43642567, lon |-> -79200123]

\* on the equator: POrigin, PEdge at which calculateDistance(POrigin, PEdge)
\* is 15 to the last bit (latitude 0.00013489824088780959, here to the
\* nearest microdegree), and PPast 30 m north of POrigin
POrigin == [lat |-> 0, lon |-> 0]
PEdge == [lat |-> 135, lon |-> 0]
PPast == [lat |-> 270, lon |-> 0]
\* positions the tracker is given in SpecEdge
EdgeSamples == {POrigin, PEdge, PPast}

\* coordinates typed into the manual inputs: a city latitude, the pole, and
\* a latitude the validation turns away
ManualInputs ==
  {[lat |-> la, lon |-> FALLBACK.lon] : la \in {60000000, 90000000, 91000000}}

\* the north-west corner of the map (tile 0, 0, pixel offsets 0, 0) and a
\* position in FALLBACK's tile with pixel offsets 999, 999
PCorner == [lat |-> 85051128, lon |-> -180000000]
PHigh == [lat |-> 43580515, lon |-> -79277345]
\* coordinates the grid is built for in SpecCells
CellCoords == {FALLBACK, PCorner, PHigh}

\* positions the geolocation API reports, places picked on the map
Samples == {FALLBACK, PNear, PFar}
MapPicks == {PFar}
\* values of the manual inputs with a zero coordinate
PEquator == [lat |-> 0, lon |-> FALLBACK.lon]
PMeridian == [lat |-> FALLBACK.lat, lon |-> 0]
ZeroInputs == {PEquator, PMeridian, POrigin}
\* options of the update-frequency select, in seconds
UpdateFrequencies == {10, GPS_UPDATE_INTERVAL}
\* desktop: not a mobile device; android: mobile without a permission API;
\* ios: mobile, motion permission asked in a prompt
Devices == {"desktop", "android", "ios"}

\* arguments of latLonToTile: latitudes inside the Mercator range up to its
\* last microdegree, longitudes of [-180, 180] with both ends, zoom levels
\* and tile sizes
ProjLats == {0, 43642567, 43642667, 60000000, -33868820, 85051128, -85051128}
ProjLons == {-180000000, -90000000, -79387054, 0, 1, 90000000, 179999999,
             180000000}
ProjZooms == {0, 1, 2, ZOOM_LEVEL}
ProjTileSizes == {TILE_SIZE, 256}

MaxRequests == 2          \* requests the proxy worker handles
MaxTime == 66             \* timestamp of the last animation frame, ms
\* values of the opacity slider, percent
Opacities == {50, 80}

\* values of the height slider
SkyHeights == {INITIAL_SKY_HEIGHT, 350}

\* request paths (by segment), query parameters other than the cache-buster,
\* and values of the cache-buster t; "absent": the request carries no t
WorkerPaths == {<<"wplace", "files", "s0", "tiles", "572", "747.png">>,
                <<"wplace", "files", "s0", "tiles", "573", "747.png">>,
                <<"favicon.ico">>}
OtherParams == {<<>>, <<[name |-> "v", value |-> "2"]>>}
CacheBusters == {"absent", "1", "2"}
\* statuses the backend answers with
UpstreamStatuses == {200, 404}

\* time between two animation frames, ms
FrameIntervals == {0, 16, 50}
\* timestamps handed to the loop in any order: repeated, or earlier than the
\* one before
FrameTimes == {0, 10, 16, 66}
MaxYaw == 3000            \* largest yaw the mouse is followed to, mrad
\* pointer positions of mouse events, pixels
MousePositions == {[clientX |-> 0, clientY |-> 0],
                   [clientX |-> 300, clientY |-> 400],
                   [clientX |-> 1000, clientY |-> 1000]}
\* readings of the orientation sensor, milliradians
RawOrientations == {0, 100, 400, 6200}

\* coordinates handed to loadTileGridTextures in the tile specifications
RebuildCoords == {FALLBACK, PFar}
\* the tile whose image the proxy may answer with an error
FailChoices == {{}, {<<572, 747>>}}

-----------------------------------------------------------------------------
(* utils.js *)

\* a * m = q * c + r with 0 <= r < c, for 0 <= a < c and m >= 0, never
\* forming a product beyond 3c
MulDivStep(h, a, odd, c) ==
  LET d == 2 * h.r + (IF odd THEN a ELSE 0)
  IN [q |-> 2 * h.q + (d \div c), r |-> d % c]

RECURSIVE MulDivMod(_, _, _)
MulDivMod(a, m, c) ==
  IF m = 0 THEN [q |-> 0, r |-> 0]
  ELSE MulDivStep(MulDivMod(a, m \div 2, c), a, (m % 2) = 1, c)

\* num/den scaled by m: integer part and the remainder over den
ScaleSplit(num, den, m) ==
  LET low == MulDivMod(num % den, m, den)
  IN [int |-> (num \div den) * m + low.q, rem |-> low.r]

Pow2(k) == 2 ^ k

MercatorScale == Pow2(26)

\* floor(2^26 * (1 - ln(tan(pi/4 + lat*pi/360)) / pi) / 2), utils.js line 104
MercatorY(lat) ==
  CASE lat = 43642567 -> 24494455
    [] lat = 43642667 -> 24494430
    [] lat = 43580515 -> 24510432
    [] lat = 0 -> 33554432
    [] lat = 135 -> 33554406
    [] lat = 270 -> 33554381
    [] lat = 60000000 -> 19488390
    [] lat = -33868820 -> 40271513
    [] lat = 85051128 -> 1
    [] lat = 90000000 -> -365176202
    [] lat = -85051128 -> 67108862

\* a projection that keeps a count of the grids built so far in its scale
latLonToTile_ScaleDrifts(lat, lon, zoom, tileSize) ==
  LET n == Pow2(zoom) + Len(rebuilds)
      xs == ScaleSplit(lon + 180000000, 360000000, n)
      ys == ScaleSplit(MercatorY(lat), MercatorScale, n)
  IN [tileX |-> xs.int,
      tileY |-> ys.int,
      pixelX |-> MulDivMod(xs.rem, tileSize, 360000000).q,
      pixelY |-> MulDivMod(ys.rem, tileSize, MercatorScale).q]

latLonToTile(lat, lon, zoom, tileSize) ==
  LET n == Pow2(zoom)
      xs == ScaleSplit(lon + 180000000, 360000000, n)
      ys == ScaleSplit(MercatorY(lat), MercatorScale, n)
  IN [tileX |-> xs.int,
      tileY |-> ys.int,
      pixelX |-> MulDivMod(xs.rem, tileSize, 360000000).q,
      pixelY |-> MulDivMod(ys.rem, tileSize, MercatorScale).q]

-----------------------------------------------------------------------------
(* tiles.js *)

\* a plane (mesh with its material) is named by the rebuild that created it
\* and its relative position
PlaneId(g, dx, dy) == <<g, dx, dy>>

calculateTilePosition_ZGrowsWithY(relativeX, relativeY, pix) ==
  [x |-> (TILE_SIZE \div 2) - pix.pixelX + relativeX * TILE_SIZE,
   z |-> (TILE_SIZE \div 2) - pix.pixelY + relativeY * TILE_SIZE]

\* neighbours set half a tile from the centre cell
calculateTilePosition_HalfPitch(relativeX, relativeY, pix) ==
  [x |-> (TILE_SIZE \div 2) - pix.pixelX + relativeX * (TILE_SIZE \div 2),
   z |-> (TILE_SIZE \div 2) - pix.pixelY - relativeY * (TILE_SIZE \div 2)]

calculateTilePosition(relativeX, relativeY, pix) ==
  IF relativeX = 0 /\ relativeY = 0
  THEN [x |-> (TILE_SIZE \div 2) - pix.pixelX,
        z |-> (TILE_SIZE \div 2) - pix.pixelY]
  ELSE LET centerOffsetX == (TILE_SIZE \div 2) - pix.pixelX
           centerOffsetZ == (TILE_SIZE \div 2) - pix.pixelY
       IN [x |-> centerOffsetX + relativeX * TILE_SIZE,
           z |-> centerOffsetZ - relativeY * TILE_SIZE]

\* the mesh createTilePlane makes: material opacity 0, no texture, child of
\* the group of rebuild g
createTilePlane(tileX, tileY, relativeX, relativeY, g, pix, sky) ==
  LET position == calculateTilePosition(relativeX, relativeY, pix)
  IN [x |-> position.x, y |-> sky, z |-> position.z,
      opacity |-> 0, map |-> FALSE, parent |-> g, disposed |-> 0]

\* Map.prototype.set: a present key keeps its place and takes the new value
MapSet(map, key, value) ==
  IF \E i \in DOMAIN map : map[i].key = key
  THEN [i \in DOMAIN map |-> IF map[i].key = key THEN value ELSE map[i]]
  ELSE Append(map, value)

\* the values dx and dy run through, in loop order
RelativeRange == <<-1, 0, 1>>

tileKey(tileX, tileY) == <<tileX, tileY>>

GridEntry_DxForY(centerTileX, centerTileY, dx, dy, g) ==
  [key |-> tileKey(centerTileX + dx, centerTileY + dx),
   plane |-> PlaneId(g, dx, dy),
   tileX |-> centerTileX + dx, tileY |-> centerTileY + dx,
   relativeX |-> dx, relativeY |-> dy]

GridEntry(centerTileX, centerTileY, dx, dy, g) ==
  [key |-> tileKey(centerTileX + dx, centerTileY + dy),
   plane |-> PlaneId(g, dx, dy),
   tileX |-> centerTileX + dx, tileY |-> centerTileY + dy,
   relativeX |-> dx, relativeY |-> dy]

RECURSIVE buildTileGridFrom(_, _, _, _, _)
buildTileGridFrom(i, grid, centerTileX, centerTileY, g) ==
  LET w == Len(RelativeRange) IN
  IF i > w * w THEN grid
  ELSE LET dx == RelativeRange[((i - 1) \div w) + 1]
           dy == RelativeRange[((i - 1) % w) + 1]
           e == GridEntry(centerTileX, centerTileY, dx, dy, g)
       IN buildTileGridFrom(i + 1, MapSet(grid, e.key, e),
                            centerTileX, centerTileY, g)

\* the Map buildTileGrid fills, starting from the cleared tileGrid
buildTileGrid(centerTileX, centerTileY, g) ==
  buildTileGridFrom(1, <<>>, centerTileX, centerTileY, g)

EntryPlanes(grid) == {grid[i].plane : i \in DOMAIN grid}

\* tiles of the planes createTilePlane made for a grid
NewPlanes(grid, pix, sky, g) ==
  [p \in EntryPlanes(grid) |->
     LET e == CHOOSE c \in {grid[i] : i \in DOMAIN grid} : c.plane = p
     IN createTilePlane(e.tileX, e.tileY, e.relativeX, e.relativeY,
                        g, pix, sky)]

\* loadTileGridTextures(lat, lon): project, keep the old grid aside, build the
\* new one hidden and issue one texture fetch per cell
LoadTileGridTextures(lat, lon) ==
  \E t \in {latLonToTile(lat, lon, ZOOM_LEVEL, TILE_SIZE)} :
  \E g \in {Len(rebuilds) + 1} :
  \E grid \in {buildTileGrid(t.tileX, t.tileY, g)} :
     /\ currentPixelOffsets' = [pixelX |-> t.pixelX, pixelY |-> t.pixelY]
     /\ centerTile' = [tileX |-> t.tileX, tileY |-> t.tileY]
     /\ tileGrid' = grid
     /\ tileGroup' = g
     /\ sceneChildren' = sceneChildren \cup {g}
     /\ planes' = NewPlanes(grid, currentPixelOffsets', SKY_HEIGHT, g) @@ planes
     /\ rebuilds' = Append(rebuilds,
          [loadedCount |-> 0,
           totalTiles |-> Len(grid),
           newTileMaterials |-> [i \in DOMAIN grid |-> grid[i].plane],
           oldTileGrid |-> tileGrid,
           oldTileGroup |-> tileGroup,
           swaps |-> 0,
           lat |-> lat, lon |-> lon])
     /\ loads' = loads \cup
          {[mat |-> grid[i].plane, tileX |-> grid[i].tileX,
            tileY |-> grid[i].tileY, issued |-> i] : i \in DOMAIN grid}
     /\ callbacks' = [p \in EntryPlanes(grid) |-> 0] @@ callbacks
     /\ UNCHANGED SKY_HEIGHT

\* the test that decides the swap, tiles.js line 281
SwapDue_OneEarly(loadedCount, totalTiles) == loadedCount = totalTiles - 1

SwapDue(loadedCount, totalTiles) == loadedCount = totalTiles

\* a swap that reveals the new cells and leaves the old ones where they are
SwapPlanes_LeavesOld(r, pl, opacity) ==
  LET new == {r.newTileMaterials[i] : i \in DOMAIN r.newTileMaterials}
  IN [p \in DOMAIN pl |->
        IF p \in new THEN [pl[p] EXCEPT !.opacity = opacity] ELSE pl[p]]

\* the atomic swap of rebuild r: old planes leave their group and are disposed,
\* the old group leaves the scene, the new materials take the slider's opacity
SwapPlanes(r, pl, opacity) ==
  LET old == EntryPlanes(r.oldTileGrid)
      new == {r.newTileMaterials[i] : i \in DOMAIN r.newTileMaterials}
      removed == [p \in DOMAIN pl |->
                   IF p \in old
                   THEN [pl[p] EXCEPT
                           !.parent = IF r.oldTileGroup # 0 /\ @ = r.oldTileGroup
                                      THEN 0 ELSE @,
                           !.disposed = @ + 1]
                   ELSE pl[p]]
  IN [p \in DOMAIN pl |->
        IF p \in new THEN [removed[p] EXCEPT !.opacity = opacity]
        ELSE removed[p]]

\* the completion callback loadTileGridTextures hands to each fetch of rebuild
\* g, run on the planes pl the texture handler leaves
OnLoadCallback(g, pl, l) ==
  LET count == rebuilds[g].loadedCount + 1
      due == SwapDue(count, rebuilds[g].totalTiles)
  IN /\ rebuilds' = [rebuilds EXCEPT ![g].loadedCount = count,
                                     ![g].swaps = IF due THEN @ + 1 ELSE @]
     /\ planes' = IF due THEN SwapPlanes(rebuilds[g], pl, opacitySlider) ELSE pl
     /\ sceneChildren' = IF due /\ rebuilds[g].oldTileGroup # 0
                         THEN sceneChildren \ {rebuilds[g].oldTileGroup}
                         ELSE sceneChildren
     /\ callbacks' = [callbacks EXCEPT ![l.mat] = @ + 1]

\* whether the error handler of loadSingleTileTexture invokes the callback
ErrorInvokesCallback_Never == FALSE

ErrorInvokesCallback == TRUE

\* the load handler of loadSingleTileTexture: the material takes the texture
TextureLoaded(l) ==
  /\ l \in loads /\ l \notin hung
  /\ <<l.tileX, l.tileY>> \notin failingTiles
  /\ loads' = loads \ {l}
  /\ OnLoadCallback(l.mat[1], [planes EXCEPT ![l.mat].map = TRUE], l)
  /\ ev' = [type |-> "textureLoaded", once |-> "none", sample |-> NULL, refreshes |-> 0, tracker |-> "none"]
  /\ UNCHANGED <<SKY_HEIGHT, tileGrid, centerTile, currentPixelOffsets,
                 tileGroup, netVars, geoVars, uiVars, otherVars>>

\* the error handler of loadSingleTileTexture
TextureError(l) ==
  /\ l \in loads /\ l \notin hung
  /\ <<l.tileX, l.tileY>> \in failingTiles
  /\ loads' = loads \ {l}
  /\ IF ErrorInvokesCallback
     THEN OnLoadCallback(l.mat[1], planes, l)
     ELSE UNCHANGED <<rebuilds, planes, sceneChildren, callbacks>>
  /\ ev' = [type |-> "textureError", once |-> "none", sample |-> NULL, refreshes |-> 0, tracker |-> "none"]
  /\ UNCHANGED <<SKY_HEIGHT, tileGrid, centerTile, currentPixelOffsets,
                 tileGroup, netVars, geoVars, uiVars, otherVars>>

\* a fetch whose connection stalls: neither handler is ever called, and
\* loadSingleTileTexture arms no timer that would
FetchHangs(l) ==
  /\ l \in loads /\ l \notin hung
  /\ Cardinality(hung) < MaxHung
  /\ hung' = hung \cup {l}
  /\ ev' = [type |-> "fetchHangs", once |-> "none", sample |-> NULL, refreshes |-> 0, tracker |-> "none"]
  /\ UNCHANGED <<tileVars, failingTiles, geoVars, uiVars, otherVars>>

\* a rebuild requested directly with a coordinate, as the refresh callback of
\* main.js and startAR do
RebuildRequest(p) ==
  /\ LoadTileGridTextures(p.lat, p.lon)
  /\ ev' = [type |-> "rebuild", once |-> "none", sample |-> p, refreshes |-> 0, tracker |-> "none"]
  /\ UNCHANGED <<netVars, geoVars, uiVars, otherVars>>

\* setSkyHeight(height): the planes of the current grid after the call
setSkyHeight_LeavesPlanes(pl, grid, height) == pl

setSkyHeight(pl, grid, height) ==
  [p \in DOMAIN pl |->
     IF p \in EntryPlanes(grid) THEN [pl[p] EXCEPT !.y = height] ELSE pl[p]]

\* updatePlaneHeight of ui.js: the height slider's value goes to setSkyHeight
UpdatePlaneHeight(newHeight) ==
  /\ SKY_HEIGHT' = newHeight
  /\ planes' = setSkyHeight(planes, tileGrid, newHeight)
  /\ ev' = [type |-> "updatePlaneHeight", once |-> "none", sample |-> NULL,
            refreshes |-> 0, tracker |-> "none"]
  /\ UNCHANGED <<tileGrid, centerTile, currentPixelOffsets, tileGroup,
                 sceneChildren, rebuilds, loads, callbacks, netVars, geoVars,
                 uiVars, otherVars>>

\* updateTileOpacity(opacity): the planes after the call
updateTileOpacity(pl, grid, opacity) ==
  [p \in DOMAIN pl |->
     IF p \in EntryPlanes(grid) THEN [pl[p] EXCEPT !.opacity = opacity]
     ELSE pl[p]]

\* updatePlaneOpacity of ui.js: the opacity slider's value, in percent, goes
\* to updateTileOpacity
UpdatePlaneOpacity(opacityPercent) ==
  /\ opacitySlider' = opacityPercent
  /\ planes' = updateTileOpacity(planes, tileGrid, opacityPercent)
  /\ ev' = [type |-> "updatePlaneOpacity", once |-> "none", sample |-> NULL,
            refreshes |-> 0, tracker |-> "none"]
  /\ UNCHANGED <<SKY_HEIGHT, tileGrid, centerTile, currentPixelOffsets,
                 tileGroup, sceneChildren, rebuilds, loads, callbacks,
                 netVars, geoVars, otherVars, started, startCalls,
                 videoStarted, hasDeviceOrientation, controlMode, modalOpen,
                 mapInitPending, locationMap, liveTrackingToggle, device>>

\* fetches of one rebuild answered in the order they were issued
InOrder(l) ==
  ~(\E k \in loads : k.mat[1] = l.mat[1] /\ k.issued < l.issued)

-----------------------------------------------------------------------------
(* geolocation.js, ui.js, map.js: the handlers as functions of the program *)
(* state.  A handler takes the record of the mutable state and returns the *)
(* record it leaves; the record also carries what the handler did: the     *)
(* loadTileGridTextures call it made (call), the branch getLatLonOnce took  *)
(* (once), the value it resolved with (resolved), the number of            *)
(* refreshLocationAndTiles calls (refreshes) and the branch the tracker's  *)
(* position callback took (tracker).                                       *)

State ==
  [gpsOverride |-> gpsOverride, currentLocation |-> currentLocation,
   selectedLocation |-> selectedLocation,
   isLiveTrackingEnabled |-> isLiveTrackingEnabled,
   gpsUpdateInterval |-> gpsUpdateInterval,
   gpsTrackingIntervalId |-> gpsTrackingIntervalId,
   lastKnownPosition |-> lastKnownPosition,
   modalOriginalSettings |-> modalOriginalSettings,
   timers |-> timers, nextTimerId |-> nextTimerId,
   geoQueries |-> geoQueries, alerts |-> alerts,
   firstSamplePending |-> firstSamplePending,
   started |-> started, startCalls |-> startCalls,
   videoStarted |-> videoStarted,
   hasDeviceOrientation |-> hasDeviceOrientation,
   controlMode |-> controlMode, modalOpen |-> modalOpen,
   mapInitPending |-> mapInitPending, locationMap |-> locationMap,
   liveTrackingToggle |-> liveTrackingToggle,
   call |-> NULL, once |-> "none", resolved |-> NULL, refreshes |-> 0,
   tracker |-> "none"]

\* thousandths of a metre between two of the model's coordinates:
\* floor(1000 * calculateDistance(...)); POrigin to PEdge is 15 exactly, no
\* other pair lies within a millimetre of the threshold
calculateDistance(p, q) ==
  LET a == <<p.lat, p.lon>>
      b == <<q.lat, q.lon>>
      f == <<FALLBACK.lat, FALLBACK.lon>>
      n == <<PNear.lat, PNear.lon>>
      r == <<PFar.lat, PFar.lon>>
      o == <<POrigin.lat, POrigin.lon>>
      e == <<PEdge.lat, PEdge.lon>>
      t == <<PPast.lat, PPast.lon>>
  IN CASE a = b -> 0
       [] {a, b} = {o, e} -> 15000
       [] {a, b} = {o, t} -> 30022
       [] {a, b} = {e, t} -> 15022
       [] {a, b} = {f, n} -> 11119
       [] {a, b} = {f, r} -> 15041819
       [] {a, b} = {n, r} -> 15041810

gpsDistanceThreshold == GPS_DISTANCE_THRESHOLD

showFallbackLocationAlert(s) == [s EXCEPT !.alerts = @ + 1]

getLatLonOnce_IgnoresOverride(s, kind) ==
  IF ~hasGeolocation
  THEN [showFallbackLocationAlert(s) EXCEPT
          !.currentLocation = FALLBACK,
          !.once = "unavailable", !.resolved = FALLBACK]
  ELSE [s EXCEPT !.geoQueries[kind] = @ + 1,
                 !.once = "query", !.resolved = NULL]

\* getLatLonOnce up to the point where the promise is resolved or the
\* position query is issued; kind names the caller waiting for the answer
getLatLonOnce(s, kind) ==
  IF s.gpsOverride # NULL
  THEN [s EXCEPT !.once = "override", !.resolved = s.gpsOverride]
  ELSE IF ~hasGeolocation
  THEN [showFallbackLocationAlert(s) EXCEPT
          !.currentLocation = FALLBACK,
          !.once = "unavailable", !.resolved = FALLBACK]
  ELSE [s EXCEPT !.geoQueries[kind] = @ + 1,
                 !.once = "query", !.resolved = NULL]

\* the success callback of getLatLonOnce's position query
getLatLonOnceSuccess(s, p) ==
  [s EXCEPT !.currentLocation = p, !.lastKnownPosition = p,
            !.once = "success", !.resolved = p]

\* the error callback of getLatLonOnce's position query
getLatLonOnceError(s) ==
  [showFallbackLocationAlert(s) EXCEPT
     !.currentLocation = FALLBACK, !.lastKnownPosition = FALLBACK,
     !.once = "error", !.resolved = FALLBACK]

stopGPSTracking_KeepsInterval(s) ==
  IF s.gpsTrackingIntervalId # 0
  THEN [s EXCEPT !.gpsTrackingIntervalId = 0]
  ELSE s

stopGPSTracking(s) ==
  IF s.gpsTrackingIntervalId # 0
  THEN [s EXCEPT !.timers = {t \in @ : t.id # s.gpsTrackingIntervalId},
                 !.gpsTrackingIntervalId = 0]
  ELSE s

\* a tracker that sets a new interval without clearing the one it has
startGPSTracking_NoClear(s) ==
  IF s.gpsOverride # NULL THEN s
  ELSE [s EXCEPT !.timers = @ \cup {[id |-> s.nextTimerId,
                                     period |-> s.gpsUpdateInterval]},
                 !.gpsTrackingIntervalId = s.nextTimerId,
                 !.nextTimerId = @ + 1,
                 !.firstSamplePending = TRUE]

startGPSTracking(s) ==
  IF s.gpsOverride # NULL THEN s
  ELSE LET c == stopGPSTracking(s)
       IN [c EXCEPT !.timers = @ \cup {[id |-> c.nextTimerId,
                                        period |-> c.gpsUpdateInterval]},
                    !.gpsTrackingIntervalId = c.nextTimerId,
                    !.nextTimerId = @ + 1,
                    !.firstSamplePending = TRUE]

\* the continuation refreshLocationAndTiles attaches to getLatLonOnce:
\* refreshTilesCallback is loadTileGridTextures (main.js)
refreshTiles(s) == [s EXCEPT !.call = s.resolved]

refreshLocationAndTiles(s) ==
  LET r == getLatLonOnce([s EXCEPT !.refreshes = @ + 1], "refresh")
  IN IF r.resolved # NULL THEN refreshTiles(r) ELSE r

\* an interval callback that falls back when the API is missing
trackerTick_FallsBack(s) ==
  IF s.gpsOverride # NULL THEN stopGPSTracking(s)
  ELSE IF ~hasGeolocation
  THEN [showFallbackLocationAlert(s) EXCEPT !.currentLocation = FALLBACK,
                                            !.lastKnownPosition = FALLBACK]
  ELSE [s EXCEPT !.geoQueries.tick = @ + 1]

\* the interval callback of startGPSTracking, up to the position query
trackerTick(s) ==
  IF s.gpsOverride # NULL THEN stopGPSTracking(s)
  ELSE IF ~hasGeolocation THEN s
  ELSE [s EXCEPT !.geoQueries.tick = @ + 1]

\* a threshold that counts as exceeded when it is reached
TrackerMoved_AtThreshold(distance, threshold) == distance >= threshold * 1000

TrackerMoved_Reversed(distance, threshold) == distance < threshold * 1000

\* distance > gpsDistanceThreshold, the distance being in millimetres
TrackerMoved(distance, threshold) == distance > threshold * 1000

FirstUpdate_SinceLiveEntered(s) == s.firstSamplePending

\* the test of line 129: no position stored yet
FirstUpdate(s) == s.lastKnownPosition = NULL

\* the success callback of the tracker's position query
trackerPosition(s, p) ==
  IF ~FirstUpdate(s)
  THEN IF TrackerMoved(calculateDistance(s.lastKnownPosition, p),
                       gpsDistanceThreshold)
       THEN refreshLocationAndTiles([s EXCEPT !.lastKnownPosition = p,
                                              !.currentLocation = p,
                                              !.tracker = "moved"])
       ELSE [s EXCEPT !.tracker = "still"]
  ELSE [s EXCEPT !.lastKnownPosition = p, !.currentLocation = p,
                 !.tracker = "first"]

\* startAR from "Load the tile grid with textures" to its end
startARAfterLocation(s) ==
  LET a == [s EXCEPT !.call = s.resolved]
      b == IF a.isLiveTrackingEnabled /\ a.gpsOverride = NULL
           THEN startGPSTracking(a) ELSE a
  IN [b EXCEPT !.started = TRUE]

\* startAR from the call of getLatLonOnce
startARAfterVideo(s) ==
  LET r == getLatLonOnce(s, "start")
  IN IF r.resolved # NULL THEN startARAfterLocation(r) ELSE r

isMobileDevice == device # "desktop"

\* startAR from the answer of ensureMotionPermission to the camera request
startARAfterPermission(s, motionPermissionGranted) ==
  LET c == IF motionPermissionGranted /\ isMobileDevice
           THEN [s EXCEPT !.hasDeviceOrientation = TRUE,
                          !.controlMode = "orientation"]
           ELSE IF isMobileDevice /\ ~motionPermissionGranted
           THEN [s EXCEPT !.hasDeviceOrientation = motionPermissionGranted]
           ELSE [s EXCEPT !.hasDeviceOrientation = motionPermissionGranted,
                          !.controlMode = "mouse"]
  IN IF motionPermissionGranted \/ ~isMobileDevice
     THEN IF c.videoStarted
          THEN startARAfterVideo(c)
          ELSE [c EXCEPT !.videoStarted = TRUE, !.startCalls.video = @ + 1]
     ELSE [c EXCEPT !.started = TRUE]

\* the click handler of the start button; only the permission prompt of iOS
\* makes ensureMotionPermission wait
startAR(s) ==
  LET c == [s EXCEPT !.startCalls.clicks = @ + 1]
  IN IF s.started THEN c
     ELSE IF device = "ios" THEN [c EXCEPT !.startCalls.perm = @ + 1]
     ELSE startARAfterPermission(c, device = "android")

openGPSModal(s) ==
  [s EXCEPT !.modalOriginalSettings =
              [isLiveTrackingEnabled |-> s.isLiveTrackingEnabled,
               gpsUpdateInterval |-> s.gpsUpdateInterval,
               selectedLocation |-> s.selectedLocation],
            !.liveTrackingToggle.disabled = (s.gpsOverride # NULL),
            !.modalOpen = TRUE,
            !.mapInitPending = @ + 1]

closeGPSModal(s) ==
  LET o == s.modalOriginalSettings
  IN [s EXCEPT !.isLiveTrackingEnabled = o.isLiveTrackingEnabled,
               !.gpsUpdateInterval = o.gpsUpdateInterval,
               !.selectedLocation = o.selectedLocation,
               !.liveTrackingToggle =
                  [checked |-> o.isLiveTrackingEnabled,
                   disabled |-> (s.gpsOverride # NULL)],
               !.modalOpen = FALSE]

useCurrentGPS(s) ==
  LET a == [s EXCEPT !.gpsOverride = NULL,
                     !.selectedLocation = NULL,
                     !.isLiveTrackingEnabled = TRUE,
                     !.liveTrackingToggle =
                        [checked |-> TRUE, disabled |-> FALSE],
                     !.modalOriginalSettings =
                        [isLiveTrackingEnabled |-> TRUE,
                         gpsUpdateInterval |-> s.gpsUpdateInterval,
                         selectedLocation |-> NULL]]
      b == IF a.started THEN startGPSTracking(a) ELSE a
  IN refreshLocationAndTiles([b EXCEPT !.modalOpen = FALSE])

\* applySelectedLocation with a location selected (without one it only
\* shows a message)
applySelectedLocation(s) ==
  LET a == [s EXCEPT !.gpsOverride = [lat |-> s.selectedLocation.lat,
                                      lon |-> s.selectedLocation.lon]]
      b == stopGPSTracking(a)
      c == [b EXCEPT !.isLiveTrackingEnabled = FALSE,
                     !.liveTrackingToggle =
                        [checked |-> FALSE, disabled |-> TRUE],
                     !.modalOriginalSettings =
                        [isLiveTrackingEnabled |-> FALSE,
                         gpsUpdateInterval |-> s.gpsUpdateInterval,
                         selectedLocation |-> s.selectedLocation],
                     !.modalOpen = FALSE]
  IN refreshLocationAndTiles(c)

\* the change handler of the live-tracking checkbox
\* a checkbox handler that starts the tracker and never stops it
liveTrackingToggleChange_NeverStops(s, checked) ==
  LET a == [s EXCEPT !.isLiveTrackingEnabled = checked,
                     !.modalOriginalSettings.isLiveTrackingEnabled = checked,
                     !.liveTrackingToggle.checked = checked]
  IN IF a.started /\ a.gpsOverride = NULL /\ checked
     THEN startGPSTracking(a) ELSE a

liveTrackingToggleChange(s, checked) ==
  LET a == [s EXCEPT !.isLiveTrackingEnabled = checked,
                     !.modalOriginalSettings.isLiveTrackingEnabled = checked,
                     !.liveTrackingToggle.checked = checked]
  IN IF a.started /\ a.gpsOverride = NULL
     THEN IF checked THEN startGPSTracking(a) ELSE stopGPSTracking(a)
     ELSE a

\* the change handler of the update-frequency select
updateFrequencyChange(s, interval) ==
  LET a == [s EXCEPT !.gpsUpdateInterval = interval,
                     !.modalOriginalSettings.gpsUpdateInterval = interval]
  IN IF a.started /\ a.isLiveTrackingEnabled /\ a.gpsOverride = NULL
     THEN startGPSTracking(a) ELSE a

\* a?.f || b?.f || c, with 0 standing for the missing field as well
OrElse(a, b, c) == IF a # 0 THEN a ELSE IF b # 0 THEN b ELSE c
LatOf(loc) == IF loc = NULL THEN 0 ELSE loc.lat
LonOf(loc) == IF loc = NULL THEN 0 ELSE loc.lon

initializeMap(s) ==
  LET currentLat == OrElse(LatOf(s.gpsOverride), LatOf(s.currentLocation),
                           FALLBACK.lat)
      currentLon == OrElse(LonOf(s.gpsOverride), LonOf(s.currentLocation),
                           FALLBACK.lon)
  IN [s EXCEPT !.locationMap = TRUE,
               !.selectedLocation = [lat |-> currentLat, lon |-> currentLon],
               !.mapInitPending = @ - 1]

\* the click handler of the map
mapClick(s, p) ==
  [s EXCEPT !.selectedLocation = p,
            !.liveTrackingToggle = [checked |-> FALSE, disabled |-> TRUE]]

\* applyManualCoordinates for numeric input: out of range is turned away
\* with an alert of its own, the bounds themselves are accepted
applyManualCoordinates(s, lat, lon) ==
  IF lat < -90000000 \/ lat > 90000000 THEN s
  ELSE IF lon < -180000000 \/ lon > 180000000 THEN s
  ELSE [s EXCEPT !.selectedLocation = [lat |-> lat, lon |-> lon],
                 !.liveTrackingToggle = [checked |-> FALSE, disabled |-> TRUE]]

-----------------------------------------------------------------------------
(* controls.js and the render loop of main.js.  A rotation is a turn about   *)
(* one axis, an angle in milliradians modulo a full turn; times are in       *)
(* milliseconds, dt and tau in microseconds.                                  *)

FullTurn == 6283           \* 2 pi
QuarterTurn == 1571        \* Math.PI / 2
Sensitivity == 2           \* 0.002 rad per pixel
RampWindow == 250          \* the 0.25 rad of the ramp that maps angle to k
MinDt == 1000              \* the 0.001 s floor of dt

\* a maximum that lets its second argument through
Max_SecondOnly(a, b) == b

Max(a, b) == IF a >= b THEN a ELSE b

Min(a, b) == IF a <= b THEN a ELSE b

\* 2 * acos(|smoothQ.dot(targetQ)|): the angle of the shortest arc
angleTo(qa, qb) ==
  LET d == (qb - qa) % FullTurn
  IN Min(d, FullTurn - d)

\* Quaternion.slerp(qb, num/den) applied to qa: qa moves along the shortest
\* arc to qb and stops the fraction 1 - num/den of the arc short of it (the
\* remaining arc is rounded down to the milliradian)
slerp_AwayFromTarget(qa, qb, num, den) ==
  LET d == (qb - qa) % FullTurn
      arc == Min(d, FullTurn - d)
      rest == Min(arc + (arc * num) \div den, FullTurn \div 2)
  IN IF d <= FullTurn - d THEN (qb - rest) % FullTurn
     ELSE (qb + rest) % FullTurn

slerp(qa, qb, num, den) ==
  LET d == (qb - qa) % FullTurn
      arc == Min(d, FullTurn - d)
      rest == (arc * (den - num)) \div den
  IN IF d <= FullTurn - d THEN (qb - rest) % FullTurn
     ELSE (qb + rest) % FullTurn

\* THREE.MathUtils.lerp(TAU_SLOW, TAU_BASE, clamp(ang / 0.25, 0, 1))
tauFor_SlowOnLargeChange(ang) ==
  TAU_BASE + ((TAU_SLOW - TAU_BASE) * Min(Max(ang, 0), RampWindow)) \div RampWindow

tauFor(ang) ==
  TAU_SLOW + ((TAU_BASE - TAU_SLOW) * Min(Max(ang, 0), RampWindow)) \div RampWindow

\* the quaternion the filter starts the frame from
smoothQAtFrame_KeepsOwn(initialized, smooth, target) == smooth

smoothQAtFrame(initialized, smooth, target) ==
  IF ~initialized THEN target ELSE smooth

\* initDeviceOrientationControls made the controls object
controls == controlMode = "orientation"

\* no frame run yet, or a frame that did not filter
NoFrame == [filtered |-> FALSE, ang |-> 0, tau |-> 0, dt |-> 0, calls |-> <<>>]

\* the calls of the animation loop body, in order
FrameCalls_RenderLeftOut == <<"updateControls", "checkAndCapture">>

FrameCalls == <<"updateControls", "render", "checkAndCapture">>

\* updateControls(currentTime), with the calls the loop body makes after it
updateControls(currentTime) ==
  \E dt \in {Max(MinDt, (currentTime - lastT) * 1000)} :
    /\ lastT' = currentTime
    /\ IF hasDeviceOrientation /\ controls
       THEN \E targetQ \in {deviceOrientation} :
            \E from \in {smoothQAtFrame(orientationInitialized, smoothQ,
                                        targetQ)} :
            \E ang \in {angleTo(from, targetQ)} :
            \E tau \in {tauFor(ang)} :
              /\ orientationInitialized' = TRUE
              /\ smoothQ' = slerp(from, targetQ, dt, tau + dt)
              /\ cameraQuaternion' = smoothQ'
              /\ frame' = [filtered |-> TRUE, ang |-> ang, tau |-> tau,
                           dt |-> dt, calls |-> FrameCalls]
       ELSE /\ frame' = [NoFrame EXCEPT !.dt = dt, !.calls = FrameCalls]
            /\ UNCHANGED <<smoothQ, orientationInitialized, cameraQuaternion>>

\* one run of the animation loop callback of main.js
Animate(currentTime) ==
  /\ updateControls(currentTime)
  /\ ev' = [type |-> "animate", once |-> "none", sample |-> NULL,
            refreshes |-> 0, tracker |-> "none"]
  /\ UNCHANGED <<tileVars, netVars, geoVars, uiVars, proj, workerVars, mouseVars,
                 deviceOrientation>>

\* a deviceorientation event reaches the listener controls.connect() added
DeviceOrientationEvent(q) ==
  /\ controls
  /\ deviceOrientation' = q
  /\ ev' = [type |-> "deviceorientation", once |-> "none", sample |-> NULL,
            refreshes |-> 0, tracker |-> "none"]
  /\ UNCHANGED <<tileVars, netVars, geoVars, uiVars, proj, workerVars, mouseVars,
                 smoothQ, orientationInitialized, lastT, cameraQuaternion,
                 frame>>

\* setHasDeviceOrientation(true) and initDeviceOrientationControls(), as
\* startAR calls them on a phone that grants the motion permission
InitDeviceOrientationControls ==
  /\ controlMode = "none"
  /\ hasDeviceOrientation' = TRUE
  /\ controlMode' = "orientation"
  /\ ev' = [type |-> "initControls", once |-> "none", sample |-> NULL,
            refreshes |-> 0, tracker |-> "none"]
  /\ UNCHANGED <<tileVars, netVars, geoVars, otherVars, started, startCalls,
                 videoStarted, modalOpen, mapInitPending, locationMap,
                 liveTrackingToggle, opacitySlider, device>>

\* Math.max(-Math.PI/2, Math.min(Math.PI/2, pitch)) without the upper bound
clampPitch_LowerOnly(pitch) == Max(-QuarterTurn, pitch)

clampPitch(pitch) == Max(-QuarterTurn, Min(QuarterTurn, pitch))

\* onMouseDown
MouseDown(e) ==
  /\ controlMode = "mouse"
  /\ isMouseDown' = TRUE
  /\ mouseX' = e.clientX
  /\ mouseY' = e.clientY
  /\ ev' = [type |-> "mousedown", once |-> "none", sample |-> NULL,
            refreshes |-> 0, tracker |-> "none"]
  /\ UNCHANGED <<tileVars, netVars, geoVars, uiVars, proj, ctrlVars,
                 workerVars, cameraRotationX, cameraRotationY, cameraRotation>>

\* onMouseUp
MouseUp ==
  /\ controlMode = "mouse"
  /\ isMouseDown' = FALSE
  /\ ev' = [type |-> "mouseup", once |-> "none", sample |-> NULL,
            refreshes |-> 0, tracker |-> "none"]
  /\ UNCHANGED <<tileVars, netVars, geoVars, uiVars, proj, ctrlVars,
                 workerVars, mouseX, mouseY, cameraRotationX, cameraRotationY,
                 cameraRotation>>

\* onMouseMove
MouseMove(e) ==
  /\ controlMode = "mouse"
  /\ ev' = [type |-> "mousemove", once |-> "none", sample |-> NULL,
            refreshes |-> 0, tracker |-> "none"]
  /\ IF ~isMouseDown \/ hasDeviceOrientation
     THEN UNCHANGED mouseVars
     ELSE \E deltaX \in {e.clientX - mouseX} :
          \E deltaY \in {e.clientY - mouseY} :
            /\ cameraRotationY - deltaX * Sensitivity \in -MaxYaw .. MaxYaw
            /\ mouseX' = e.clientX
            /\ mouseY' = e.clientY
            /\ cameraRotationY' = cameraRotationY - deltaX * Sensitivity
            /\ cameraRotationX' =
                 clampPitch(cameraRotationX - deltaY * Sensitivity)
            /\ cameraRotation' = [x |-> cameraRotationX', y |-> cameraRotationY']
            /\ UNCHANGED isMouseDown
  /\ UNCHANGED <<tileVars, netVars, geoVars, uiVars, proj, ctrlVars,
                 workerVars>>

\* initMouseControls, as startAR calls it on a desktop: the camera looks
\* straight up and the listeners are added
InitMouseControls ==
  /\ controlMode = "none"
  /\ ~isMobileDevice
  /\ controlMode' = "mouse"
  /\ cameraRotationX' = QuarterTurn
  /\ cameraRotationY' = 0
  /\ cameraRotation' = [x |-> cameraRotationX', y |-> cameraRotationY']
  /\ ev' = [type |-> "initControls", once |-> "none", sample |-> NULL,
            refreshes |-> 0, tracker |-> "none"]
  /\ UNCHANGED <<tileVars, netVars, geoVars, proj, ctrlVars, workerVars,
                 isMouseDown, mouseX, mouseY, started, startCalls,
                 videoStarted, hasDeviceOrientation, modalOpen, mapInitPending,
                 locationMap, liveTrackingToggle, opacitySlider, device>>

-----------------------------------------------------------------------------
(* The proxy worker.  A path is its sequence of segments, a query its        *)
(* sequence of name-value pairs.                                             *)

\* the query of a request: the other parameters with t before or after them
QueryOf(others, t, first) ==
  IF t = "absent" THEN others
  ELSE IF first THEN <<[name |-> "t", value |-> t]>> \o others
  ELSE others \o <<[name |-> "t", value |-> t]>>

\* URLSearchParams.delete(name): every pair of that name goes
searchParamsDelete_Nothing(params, name) == params

searchParamsDelete(params, name) ==
  LET keeps(pair) == pair.name # name
  IN SelectSeq(params, keeps)

\* url.pathname.startsWith("/wplace/")
underWplace(path) == Len(path) > 1 /\ path[1] = "wplace"

\* the upstream URL and the cache key the worker derives from it
upstreamOf(path, query) ==
  [origin |-> "https://backend.wplace.live", path |-> Tail(path),
   search |-> query]

cacheKeyOf(upstream) ==
  [upstream EXCEPT !.search = searchParamsDelete(@, "t")]

\* cache.match(key): the stored response, or NULL
cacheMatch_AlwaysMiss(c, key) == NULL

cacheMatch(c, key) ==
  IF \E e \in c : e.key = key
  THEN CHOOSE e \in c : e.key = key
  ELSE NULL

\* fetch(req, env, ctx) up to its return; u is the status the backend
\* answers with if it is asked.  The cache.put is handed to ctx.waitUntil.
WorkerFetch(path, others, t, first, u) ==
  /\ Len(workerLog) < MaxRequests
  /\ \E query \in {QueryOf(others, t, first)} :
       IF ~underWplace(path)
       THEN /\ workerLog' = Append(workerLog,
                 [path |-> path, others |-> others, query |-> query,
                  status |-> 404, key |-> NULL, cached |-> FALSE,
                  upstream |-> 0])
            /\ UNCHANGED <<cache, waitUntil>>
       ELSE \E key \in {cacheKeyOf(upstreamOf(path, query))} :
            \E cached \in {cacheMatch(cache, key)} :
            \E status \in {IF cached # NULL THEN cached.status ELSE u} :
            /\ workerLog' = Append(workerLog,
                 [path |-> path, others |-> others, query |-> query,
                  status |-> status, key |-> key, cached |-> cached # NULL,
                  upstream |-> IF cached # NULL THEN 0 ELSE 1])
            /\ waitUntil' = IF cached # NULL THEN waitUntil
                            ELSE waitUntil \cup {[key |-> key, status |-> status]}
            /\ UNCHANGED cache
  /\ UNCHANGED <<tileVars, netVars, geoVars, uiVars, ev, proj, ctrlVars,
                 mouseVars>>

\* a cache.put handed to ctx.waitUntil lands: the entry of its key is replaced
CachePut(p) ==
  /\ p \in waitUntil
  /\ cache' = {e \in cache : e.key # p.key} \cup {p}
  /\ waitUntil' = waitUntil \ {p}
  /\ UNCHANGED <<tileVars, netVars, geoVars, uiVars, ev, proj, ctrlVars,
                 mouseVars, workerLog>>

-----------------------------------------------------------------------------
(* Events of the location and interface part *)

PendingQueries(q) == q.tick + q.refresh + q.start

\* the handler's result stays within the bounds of the model
Within(s) ==
  /\ s.call # NULL => Len(rebuilds) < MaxGeoRebuilds
  /\ s.alerts <= MaxAlerts
  /\ s.nextTimerId <= MaxTimers + 1
  /\ PendingQueries(s.geoQueries) <= MaxPendingQueries
  /\ s.mapInitPending <= MaxMapInits

\* the program moves to the state the handler left
Commit(s, type, sample) ==
  /\ Within(s)
  /\ gpsOverride' = s.gpsOverride
  /\ currentLocation' = s.currentLocation
  /\ selectedLocation' = s.selectedLocation
  /\ isLiveTrackingEnabled' = s.isLiveTrackingEnabled
  /\ gpsUpdateInterval' = s.gpsUpdateInterval
  /\ gpsTrackingIntervalId' = s.gpsTrackingIntervalId
  /\ lastKnownPosition' = s.lastKnownPosition
  /\ modalOriginalSettings' = s.modalOriginalSettings
  /\ timers' = s.timers
  /\ nextTimerId' = s.nextTimerId
  /\ geoQueries' = s.geoQueries
  /\ alerts' = s.alerts
  /\ firstSamplePending' = s.firstSamplePending
  /\ started' = s.started
  /\ startCalls' = s.startCalls
  /\ videoStarted' = s.videoStarted
  /\ hasDeviceOrientation' = s.hasDeviceOrientation
  /\ controlMode' = s.controlMode
  /\ modalOpen' = s.modalOpen
  /\ mapInitPending' = s.mapInitPending
  /\ locationMap' = s.locationMap
  /\ liveTrackingToggle' = s.liveTrackingToggle
  /\ ev' = [type |-> type, once |-> s.once, sample |-> sample,
            refreshes |-> s.refreshes, tracker |-> s.tracker]
  /\ IF s.call # NULL
     THEN LoadTileGridTextures(s.call.lat, s.call.lon)
     ELSE UNCHANGED tileVars
  /\ UNCHANGED <<netVars, hasGeolocation, opacitySlider, device, otherVars>>

\* a click on the start button, the n-th at most
StartClickUpTo(n) ==
  /\ ~started
  /\ startCalls.clicks < n
  /\ \E s \in {startAR(State)} : Commit(s, "startAR", NULL)

StartClick == StartClickUpTo(MaxStartClicks)

PermissionAnswered(granted) ==
  /\ startCalls.perm > 0
  /\ \E s \in {startARAfterPermission(
                 [State EXCEPT !.startCalls.perm = @ - 1], granted)} :
       Commit(s, "permission", NULL)

\* getUserMedia settles either way: startVideo catches the rejection
VideoSettled ==
  /\ startCalls.video > 0
  /\ \E s \in {startARAfterVideo([State EXCEPT !.startCalls.video = @ - 1])} :
       Commit(s, "video", NULL)

StartPosition(p) ==
  /\ geoQueries.start > 0
  /\ \E s \in {startARAfterLocation(getLatLonOnceSuccess(
                 [State EXCEPT !.geoQueries.start = @ - 1], p))} :
       Commit(s, "startPosition", p)

StartPositionError ==
  /\ geoQueries.start > 0
  /\ \E s \in {startARAfterLocation(getLatLonOnceError(
                 [State EXCEPT !.geoQueries.start = @ - 1]))} :
       Commit(s, "startPosition", NULL)

RefreshPosition(p) ==
  /\ geoQueries.refresh > 0
  /\ \E s \in {refreshTiles(getLatLonOnceSuccess(
                 [State EXCEPT !.geoQueries.refresh = @ - 1], p))} :
       Commit(s, "refreshPosition", p)

RefreshPositionError ==
  /\ geoQueries.refresh > 0
  /\ \E s \in {refreshTiles(getLatLonOnceError(
                 [State EXCEPT !.geoQueries.refresh = @ - 1]))} :
       Commit(s, "refreshPosition", NULL)

\* a timer fires: the interval callback runs
TrackerTick(t) ==
  /\ t \in timers
  /\ \E s \in {trackerTick(State)} : Commit(s, "trackerTick", NULL)

TrackerPosition(p) ==
  /\ geoQueries.tick > 0
  /\ \E s \in {trackerPosition(
                 [State EXCEPT !.geoQueries.tick = @ - 1], p)} :
       Commit([s EXCEPT !.firstSamplePending = FALSE], "trackerPosition", p)

TrackerPositionError ==
  /\ geoQueries.tick > 0
  /\ \E s \in {[State EXCEPT !.geoQueries.tick = @ - 1]} :
       Commit(s, "trackerError", NULL)

OpenGPSModal ==
  /\ ~modalOpen
  /\ \E s \in {openGPSModal(State)} : Commit(s, "openGPSModal", NULL)

CloseGPSModal ==
  /\ modalOpen
  /\ \E s \in {closeGPSModal(State)} : Commit(s, "closeGPSModal", NULL)

InitializeMap ==
  /\ mapInitPending > 0
  /\ \E s \in {initializeMap(State)} : Commit(s, "initializeMap", NULL)

MapClick(p) ==
  /\ modalOpen /\ locationMap
  /\ \E s \in {mapClick(State, p)} : Commit(s, "mapClick", p)

ApplyManualCoordinates(p) ==
  /\ modalOpen
  /\ \E s \in {applyManualCoordinates(State, p.lat, p.lon)} :
       Commit(s, "applyManualCoordinates", p)

ApplySelectedLocation ==
  /\ modalOpen /\ selectedLocation # NULL
  /\ \E s \in {applySelectedLocation(State)} :
       Commit(s, "applySelectedLocation", NULL)

UseCurrentGPS ==
  /\ modalOpen
  /\ \E s \in {useCurrentGPS(State)} : Commit(s, "useCurrentGPS", NULL)

LiveTrackingToggleChange ==
  /\ modalOpen /\ ~liveTrackingToggle.disabled
  /\ \E s \in {liveTrackingToggleChange(State, ~liveTrackingToggle.checked)} :
       Commit(s, "liveTrackingToggle", NULL)

UpdateFrequencyChange(interval) ==
  /\ modalOpen /\ ~liveTrackingToggle.disabled
  /\ interval # gpsUpdateInterval
  /\ \E s \in {updateFrequencyChange(State, interval)} :
       Commit(s, "updateFrequency", NULL)

-----------------------------------------------------------------------------
(* Initial state: the modules just loaded, initializeUI run *)

InitTiles ==
  /\ SKY_HEIGHT = INITIAL_SKY_HEIGHT
  /\ tileGrid = <<>>
  /\ centerTile = [tileX |-> 0, tileY |-> 0]
  /\ currentPixelOffsets = [pixelX |-> 0, pixelY |-> 0]
  /\ tileGroup = 0
  /\ planes = <<>>
  /\ sceneChildren = {}
  /\ rebuilds = <<>>
  /\ loads = {}
  /\ hung = {}
  /\ callbacks = <<>>
  /\ opacitySlider = 50    \* percent; the callback of ui.js divides by 100

InitGeo ==
  /\ gpsOverride = NULL
  /\ currentLocation = NULL
  /\ selectedLocation = NULL
  /\ isLiveTrackingEnabled = TRUE
  /\ gpsUpdateInterval = GPS_UPDATE_INTERVAL
  /\ gpsTrackingIntervalId = 0
  /\ lastKnownPosition = NULL
  /\ modalOriginalSettings =
       [isLiveTrackingEnabled |-> TRUE,
        gpsUpdateInterval |-> GPS_UPDATE_INTERVAL,
        selectedLocation |-> NULL]
  /\ timers = {}
  /\ nextTimerId = 1
  /\ geoQueries = [tick |-> 0, refresh |-> 0, start |-> 0]
  /\ alerts = 0
  /\ firstSamplePending = FALSE

InitUI ==
  /\ started = FALSE
  /\ startCalls = [clicks |-> 0, perm |-> 0, video |-> 0]
  /\ videoStarted = FALSE
  /\ hasDeviceOrientation = FALSE
  /\ controlMode = "none"
  /\ modalOpen = FALSE
  /\ mapInitPending = 0
  /\ locationMap = FALSE
  /\ liveTrackingToggle = [checked |-> TRUE, disabled |-> FALSE]
  /\ ev = [type |-> "init", once |-> "none", sample |-> NULL, refreshes |-> 0, tracker |-> "none"]

InitControls ==
  /\ deviceOrientation = 0
  /\ smoothQ = 0
  /\ orientationInitialized = FALSE
  /\ lastT = 0
  /\ cameraQuaternion = 0
  /\ frame = NoFrame

InitWorker ==
  /\ cache = {}
  /\ workerLog = <<>>
  /\ waitUntil = {}

InitMouse ==
  /\ isMouseDown = FALSE
  /\ mouseX = 0
  /\ mouseY = 0
  /\ cameraRotationX = 0
  /\ cameraRotationY = 0
  /\ cameraRotation = [x |-> 0, y |-> 0]

InitOther ==
  /\ proj = NULL
  /\ InitControls
  /\ InitWorker
  /\ InitMouse

Init ==
  /\ InitTiles /\ InitGeo /\ InitUI /\ InitOther
  /\ failingTiles \in FailChoices
  /\ hasGeolocation \in BOOLEAN
  /\ device \in Devices

-----------------------------------------------------------------------------
(* The tile grid alone: a rebuild is requested once the previous one has   *)
(* swapped, and the fetches of a rebuild settle in any order                *)

NextTiles ==
  \/ \E p \in RebuildCoords :
       /\ Len(rebuilds) < MaxRebuilds
       /\ loads = {}
       /\ RebuildRequest(p)
  \/ \E l \in loads : TextureLoaded(l)
  \/ \E l \in loads : TextureError(l)

InitTilesOnly == Init /\ hasGeolocation = TRUE /\ device = "desktop"

SpecTiles == InitTilesOnly /\ [][NextTiles]_vars

(* The tile grid at the border of the map and at the extreme pixel offsets *)

NextCells ==
  \/ \E p \in CellCoords :
       /\ Len(rebuilds) < MaxRebuilds
       /\ loads = {}
       /\ RebuildRequest(p)
  \/ \E l \in loads : TextureLoaded(l)
  \/ \E l \in loads : TextureError(l)

SpecCells == InitTilesOnly /\ [][NextCells]_vars

(* The tile grid with the height slider *)

NextHeight ==
  \/ NextTiles
  \/ \E h \in SkyHeights : UpdatePlaneHeight(h)

SpecHeight == InitTilesOnly /\ [][NextHeight]_vars

(* The tile grid with both sliders *)

NextSliders ==
  \/ NextTiles
  \/ \E h \in SkyHeights : UpdatePlaneHeight(h)
  \/ \E o \in Opacities : UpdatePlaneOpacity(o)

SpecSliders == InitTilesOnly /\ [][NextSliders]_vars

(* Overlapping rebuilds: a rebuild is requested at any time, the fetches of *)
(* one rebuild settle in issue order, those of different rebuilds           *)
(* interleave freely, and a fetch may stall                                 *)

NextOverlap ==
  \/ \E p \in RebuildCoords :
       /\ Len(rebuilds) < MaxOverlapRebuilds
       /\ RebuildRequest(p)
  \/ \E l \in loads : InOrder(l) /\ TextureLoaded(l)
  \/ \E l \in loads : InOrder(l) /\ TextureError(l)
  \/ \E l \in loads : InOrder(l) /\ FetchHangs(l)

SpecOverlap == InitTilesOnly /\ [][NextOverlap]_vars

(* Location and interface: the handlers of geolocation.js, ui.js and map.js  *)
(* with the answers of the platform.  Texture fetches stay in flight and    *)
(* the update-frequency select is left at its default.  The modal can be    *)
(* opened before the session has started: no handler forbids it.            *)

NextGeo ==
  \/ StartClick
  \/ \E granted \in BOOLEAN : PermissionAnswered(granted)
  \/ VideoSettled
  \/ \E p \in Samples : StartPosition(p)
  \/ StartPositionError
  \/ \E p \in Samples : RefreshPosition(p)
  \/ RefreshPositionError
  \/ \E t \in timers : TrackerTick(t)
  \/ \E p \in Samples : TrackerPosition(p)
  \/ TrackerPositionError
  \/ OpenGPSModal
  \/ CloseGPSModal
  \/ InitializeMap
  \/ \E p \in MapPicks : MapClick(p)
  \/ ApplySelectedLocation
  \/ UseCurrentGPS
  \/ LiveTrackingToggleChange

(* The tracker with the frequency select, on a phone that needs no          *)
(* permission prompt, the geolocation API present and reporting PFar       *)

NextTrack ==
  \/ StartClick
  \/ VideoSettled
  \/ StartPosition(PFar)
  \/ StartPositionError
  \/ RefreshPosition(PFar)
  \/ \E t \in timers : TrackerTick(t)
  \/ TrackerPosition(PFar)
  \/ TrackerPositionError
  \/ OpenGPSModal
  \/ CloseGPSModal
  \/ InitializeMap
  \/ \E p \in MapPicks : MapClick(p)
  \/ ApplySelectedLocation
  \/ UseCurrentGPS
  \/ LiveTrackingToggleChange
  \/ \E interval \in UpdateFrequencies : UpdateFrequencyChange(interval)

(* The tracker around the distance threshold: positions at, below and      *)
(* beyond 15 m of each other, no failing query                             *)

NextEdge ==
  \/ StartClick
  \/ VideoSettled
  \/ StartPosition(POrigin)
  \/ RefreshPosition(POrigin)
  \/ \E t \in timers : TrackerTick(t)
  \/ \E p \in EdgeSamples : TrackerPosition(p)
  \/ OpenGPSModal
  \/ CloseGPSModal
  \/ InitializeMap
  \/ \E p \in MapPicks : MapClick(p)
  \/ ApplySelectedLocation
  \/ UseCurrentGPS
  \/ LiveTrackingToggleChange

(* The location modal with the manual inputs                               *)

NextManual ==
  \/ StartClick
  \/ VideoSettled
  \/ StartPosition(PFar)
  \/ RefreshPosition(PFar)
  \/ \E t \in timers : TrackerTick(t)
  \/ TrackerPosition(PFar)
  \/ OpenGPSModal
  \/ CloseGPSModal
  \/ InitializeMap
  \/ \E p \in MapPicks : MapClick(p)
  \/ \E p \in ManualInputs : ApplyManualCoordinates(p)
  \/ ApplySelectedLocation
  \/ UseCurrentGPS
  \/ LiveTrackingToggleChange

InitTrackOnly == Init /\ failingTiles = {} /\ hasGeolocation /\ device = "android"

SpecTrack == InitTrackOnly /\ [][NextTrack]_vars

SpecEdge == InitTrackOnly /\ [][NextEdge]_vars

SpecManual == InitTrackOnly /\ [][NextManual]_vars

\* the location modal with coordinates on the equator and on the prime
\* meridian typed into the manual inputs
NextPicker ==
  \/ StartClick
  \/ VideoSettled
  \/ StartPosition(PFar)
  \/ OpenGPSModal
  \/ CloseGPSModal
  \/ InitializeMap
  \/ \E p \in MapPicks : MapClick(p)
  \/ \E p \in ZeroInputs : ApplyManualCoordinates(p)
  \/ ApplySelectedLocation
  \/ UseCurrentGPS

SpecPicker == InitTrackOnly /\ [][NextPicker]_vars

\* a phone that asks for the motion permission; all tile images available
InitGeoOnly == Init /\ failingTiles = {} /\ device = "ios"

SpecGeo == InitGeoOnly /\ [][NextGeo]_vars

(* The projection alone: latLonToTile applied to arguments of its domain     *)

LatLonToTileCall(lat, lon, zoom, tileSize) ==
  /\ proj' = [lat |-> lat, lon |-> lon, zoom |-> zoom, tileSize |-> tileSize,
              tile |-> latLonToTile(lat, lon, zoom, tileSize)]
  /\ UNCHANGED <<tileVars, netVars, geoVars, uiVars, ev, ctrlVars, workerVars,
                 mouseVars>>

NextProj ==
  \E lat \in ProjLats, lon \in ProjLons, zoom \in ProjZooms,
     tileSize \in ProjTileSizes : LatLonToTileCall(lat, lon, zoom, tileSize)

\* the page just loaded on a desktop, all tile images available
InitPlain == InitTilesOnly /\ failingTiles = {}

SpecProj == InitPlain /\ [][NextProj]_vars

(* The projection called between the steps of the tile loader               *)

PureZooms == {0, ZOOM_LEVEL}

NextPure ==
  \/ NextTiles
  \/ \E p \in RebuildCoords, zoom \in PureZooms :
       LatLonToTileCall(p.lat, p.lon, zoom, TILE_SIZE)

SpecPure == InitTilesOnly /\ [][NextPure]_vars

(* The proxy worker alone, handling requests one after the other             *)

NextWorker ==
  \/ \E path \in WorkerPaths, others \in OtherParams, t \in CacheBusters,
        first \in BOOLEAN, u \in UpstreamStatuses :
          WorkerFetch(path, others, t, first, u)
  \/ \E p \in waitUntil : CachePut(p)

SpecWorker == InitPlain /\ [][NextWorker]_vars

(* The orientation filter: sensor readings and animation frames on a phone  *)

AnimationFrame ==
  \E d \in FrameIntervals :
    /\ lastT + d <= MaxTime
    /\ Animate(lastT + d)

NextControls ==
  \/ InitDeviceOrientationControls
  \/ \E q \in RawOrientations : DeviceOrientationEvent(q)
  \/ AnimationFrame

InitControlsOnly == Init /\ failingTiles = {} /\ hasGeolocation /\ device = "android"

SpecControls == InitControlsOnly /\ [][NextControls]_vars

(* The orientation filter under a clock that repeats and runs backwards     *)

AnimationFrameAt(t) == Animate(t)

NextClock ==
  \/ InitDeviceOrientationControls
  \/ \E q \in RawOrientations : DeviceOrientationEvent(q)
  \/ \E t \in FrameTimes : AnimationFrameAt(t)

SpecClock == InitControlsOnly /\ [][NextClock]_vars

(* Start-up alone, with the start button clicked again while an earlier     *)
(* startAR still waits for the permission, the camera or the position       *)

NextStart ==
  \/ StartClickUpTo(MaxRepeatedClicks)
  \/ \E granted \in BOOLEAN : PermissionAnswered(granted)
  \/ VideoSettled
  \/ StartPosition(PFar)
  \/ StartPositionError
  \/ \E t \in timers : TrackerTick(t)
  \/ TrackerPosition(PFar)
  \/ TrackerPositionError

SpecStart == InitGeoOnly /\ [][NextStart]_vars

(* Mouse look on a desktop: pointer events and animation frames             *)

NextMouse ==
  \/ InitMouseControls
  \/ \E e \in MousePositions : MouseDown(e)
  \/ MouseUp
  \/ \E e \in MousePositions : MouseMove(e)
  \/ \E t \in FrameTimes : AnimationFrameAt(t)

SpecMouse == InitTilesOnly /\ [][NextMouse]_vars

(* The render loop beside the tile grid: frames run while rebuilds are      *)
(* requested and their fetches settle, with or without orientation controls *)

NextFrames ==
  \/ NextTiles
  \/ InitDeviceOrientationControls
  \/ AnimationFrame

\* a phone; the proxy fails on one tile of every grid
InitFramesOnly == Init /\ failingTiles # {} /\ hasGeolocation /\ device = "android"

SpecFrames == InitFramesOnly /\ [][NextFrames]_vars

\* the browser keeps calling the animation loop
SpecControlsFair == SpecControls /\ WF_vars(AnimationFrame)

-----------------------------------------------------------------------------
(* Properties of the tile grid *)

OldPlanes(g) == EntryPlanes(rebuilds[g].oldTileGrid)
NewMaterials(g) ==
  {rebuilds[g].newTileMaterials[i] : i \in DOMAIN rebuilds[g].newTileMaterials}

\* a plane is drawn when its group is in the scene and its material is not
\* fully transparent
Visible(p) ==
  /\ planes[p].parent # 0
  /\ planes[p].parent \in sceneChildren
  /\ planes[p].opacity > 0

VisiblePlanes == {p \in DOMAIN planes : Visible(p)}

\* every fetch rebuild g issued has invoked its completion callback
AllCalledBack(g) == \A p \in NewMaterials(g) : callbacks[p] >= 1

OldGridIntact(g) ==
  \A p \in OldPlanes(g) :
    /\ planes[p].parent = rebuilds[g].oldTileGroup
    /\ planes[p].parent \in sceneChildren
    /\ planes[p].disposed = 0

\* C1: within a rebuild, while some of its 9 fetches has not yet invoked the
\* completion callback, every cell of the previous grid is still in its group,
\* in the scene and undisposed, and every cell of the new grid still has
\* opacity 0; the step in which the 9th callback runs removes and disposes all
\* old cells and gives all 9 new cells the slider's opacity at once.
C1_SwapOnlyAfterAllSettled ==
  [][\A g \in DOMAIN rebuilds :
       /\ ~AllCalledBack(g) =>
            /\ OldGridIntact(g)
            /\ \A p \in NewMaterials(g) : planes[p].opacity = 0
       /\ (~AllCalledBack(g) /\ AllCalledBack(g)') =>
            /\ Cardinality(NewMaterials(g)) = 9
            /\ rebuilds'[g].loadedCount = 9
            /\ \A p \in OldPlanes(g) :
                 /\ planes'[p].parent = 0
                 /\ planes'[p].disposed = 1
            /\ rebuilds[g].oldTileGroup \notin sceneChildren'
            /\ \A p \in NewMaterials(g) : planes'[p].opacity = opacitySlider
       /\ (~AllCalledBack(g)') =>
            /\ \A p \in OldPlanes(g) :
                 /\ planes'[p].parent = planes[p].parent
                 /\ planes'[p].disposed = planes[p].disposed
            /\ \A p \in NewMaterials(g) : planes'[p].opacity = 0
    ]_vars

\* a second grid has replaced a first, revealed one: the old 9 cells are gone
\* and the new 9 are shown
C1_Witness ==
  \E g \in DOMAIN rebuilds :
    /\ rebuilds[g].swaps = 1
    /\ Cardinality(OldPlanes(g)) = 9
    /\ \A p \in OldPlanes(g) : planes[p].disposed = 1 /\ planes[p].map
    /\ \A p \in NewMaterials(g) : Visible(p)

\* the grid (the rebuild) a plane belongs to
GridOf(p) == p[1]

\* C2: whatever the interleaving of rebuild requests and fetch completions,
\* the visible cells all belong to one grid, and once a grid has been
\* revealed at least 9 cells are visible.
C2_OneGridVisible ==
  /\ \A p, q \in VisiblePlanes : GridOf(p) = GridOf(q)
  /\ (\E g \in DOMAIN rebuilds : rebuilds[g].swaps > 0) =>
       Cardinality(VisiblePlanes) >= 9

FetchOf(p) == {l \in loads : l.mat = p}

Failing(g, p) ==
  \E i \in DOMAIN rebuilds[g].newTileMaterials :
    /\ rebuilds[g].newTileMaterials[i] = p
    /\ LET t == latLonToTile(rebuilds[g].lat, rebuilds[g].lon,
                             ZOOM_LEVEL, TILE_SIZE)
       IN <<t.tileX + p[2], t.tileY + p[3]>> \in failingTiles

\* C3: every fetch invokes the completion callback exactly once when it
\* settles, by load or by error; the swap of a rebuild has fired exactly once
\* when its 9 fetches have settled and not before; after the swap a cell whose
\* fetch failed has no texture and the same opacity as the other cells.
C3_FailureCountsTowardSwap ==
  /\ \A p \in DOMAIN callbacks :
       callbacks[p] = IF FetchOf(p) = {} THEN 1 ELSE 0
  /\ \A g \in DOMAIN rebuilds :
       /\ rebuilds[g].loadedCount =
            Cardinality({p \in NewMaterials(g) : FetchOf(p) = {}})
       /\ rebuilds[g].swaps = IF rebuilds[g].loadedCount = 9 THEN 1 ELSE 0
       /\ rebuilds[g].swaps = 1 =>
            \A p \in NewMaterials(g) :
              /\ planes[p].opacity = opacitySlider
              /\ planes[p].map = ~Failing(g, p)

\* a rebuild has swapped with a failed cell among its 9
C3_Witness ==
  \E g \in DOMAIN rebuilds :
    /\ rebuilds[g].swaps = 1
    /\ \E p \in NewMaterials(g) :
         ~planes[p].map /\ planes[p].opacity = opacitySlider /\ callbacks[p] = 1

\* C4: a rebuild whose swap is pending can still complete it: one of its
\* fetches can still settle (none of them is left to a stalled connection
\* that nothing times out).
C4_SwapCanStillComplete ==
  \A g \in DOMAIN rebuilds :
    rebuilds[g].swaps = 0 => \E l \in loads \ hung : l.mat[1] = g

\* C5: after every loadTileGridTextures(lat, lon) the grid holds exactly 9
\* cells, one per relative offset of {-1,0,1} x {-1,0,1}, each at the centre
\* tile plus its offset, the centre being the tile of (lat, lon).
C5_GridIsNeighbourhood ==
  Len(rebuilds) > 0 =>
    LET last == rebuilds[Len(rebuilds)]
        t == latLonToTile(last.lat, last.lon, ZOOM_LEVEL, TILE_SIZE)
    IN /\ Len(tileGrid) = 9
       /\ {<<tileGrid[i].relativeX, tileGrid[i].relativeY>> :
             i \in DOMAIN tileGrid} = {-1, 0, 1} \X {-1, 0, 1}
       /\ \A i \in DOMAIN tileGrid :
            /\ tileGrid[i].tileX = centerTile.tileX + tileGrid[i].relativeX
            /\ tileGrid[i].tileY = centerTile.tileY + tileGrid[i].relativeY
            /\ tileGrid[i].key = <<tileGrid[i].tileX, tileGrid[i].tileY>>
       /\ centerTile = [tileX |-> t.tileX, tileY |-> t.tileY]

\* a second rebuild has moved the grid to the neighbouring centre tile
C5_Witness ==
  /\ Len(rebuilds) = 2
  /\ centerTile = [tileX |-> 573, tileY |-> 747]
  /\ rebuilds[1].lat = FALLBACK.lat /\ rebuilds[1].lon = FALLBACK.lon
  /\ Len(tileGrid) = 9

-----------------------------------------------------------------------------
(* Properties of the location tracker *)

\* the handler of this step called getLatLonOnce
CalledGetLatLonOnce == ev'.once \in {"override", "unavailable", "query"}

RebuiltAt(p) ==
  /\ Len(rebuilds') = Len(rebuilds) + 1
  /\ rebuilds'[Len(rebuilds')].lat = p.lat
  /\ rebuilds'[Len(rebuilds')].lon = p.lon

\* C6: applySelectedLocation clears the tracking interval, so that no timer is
\* left to run a position check while the override is set; useCurrentGPS in a
\* started session sets gpsOverride to null and leaves exactly one interval
\* running, the one gpsTrackingIntervalId names.
C6_OverrideSuspendsPolling ==
  [][/\ ev'.type = "applySelectedLocation" =>
          /\ gpsOverride' # NULL
          /\ gpsTrackingIntervalId' = 0
          /\ timers' = {}
     /\ gpsOverride' # NULL => timers' = {}
     /\ (ev'.type = "useCurrentGPS" /\ started) =>
          /\ gpsOverride' = NULL
          /\ gpsTrackingIntervalId' # 0
          /\ gpsTrackingIntervalId' \notin {t.id : t \in timers}
          /\ {t.id : t \in timers'} = {gpsTrackingIntervalId'}
    ]_vars

\* tracking was stopped by an override and has been started again by
\* useCurrentGPS: the second interval of the session runs
C6_Witness ==
  /\ ev.type = "useCurrentGPS"
  /\ started
  /\ gpsOverride = NULL
  /\ gpsTrackingIntervalId = 2
  /\ timers # {}
  /\ \E g \in DOMAIN rebuilds :
       rebuilds[g].lat = PFar.lat /\ rebuilds[g].lon = PFar.lon

\* C7: a call of getLatLonOnce made while gpsOverride is set resolves with the
\* override (the caller rebuilds the grid there at once), issues no position
\* query, shows no fallback notice and leaves currentLocation and
\* lastKnownPosition as its caller had them.
C7_OverrideAnswersAtOnce ==
  [][(CalledGetLatLonOnce /\ gpsOverride' # NULL) =>
       /\ ev'.once = "override"
       /\ RebuiltAt(gpsOverride')
       /\ geoQueries'.refresh = geoQueries.refresh
       /\ geoQueries'.start = geoQueries.start
       /\ geoQueries'.tick <= geoQueries.tick
       /\ alerts' = alerts
       /\ IF ev'.type = "trackerPosition"
          THEN /\ currentLocation' = ev'.sample
               /\ lastKnownPosition' = ev'.sample
          ELSE /\ currentLocation' = currentLocation
               /\ lastKnownPosition' = lastKnownPosition
    ]_vars

\* an override was applied while a real position was known: the refresh went
\* to the override and the known position stayed
C7_Witness ==
  /\ ev.type = "applySelectedLocation"
  /\ ev.once = "override"
  /\ gpsOverride = PFar
  /\ currentLocation = PNear
  /\ lastKnownPosition = PNear
  /\ rebuilds[Len(rebuilds)].lon = PFar.lon

\* C8: a sample delivered to the tracker that lies more than
\* gpsDistanceThreshold metres from lastKnownPosition becomes lastKnownPosition
\* and currentLocation, and the step calls refreshLocationAndTiles exactly
\* once: one position query is issued for it or one grid rebuild is made.
C8_MovedSampleRefreshesOnce ==
  [][(/\ ev'.type = "trackerPosition"
      /\ lastKnownPosition # NULL
      /\ calculateDistance(lastKnownPosition, ev'.sample)
           > GPS_DISTANCE_THRESHOLD * 1000) =>
       /\ lastKnownPosition' = ev'.sample
       /\ currentLocation' = ev'.sample
       /\ ev'.refreshes = 1
       /\ (Len(rebuilds') - Len(rebuilds))
            + (geoQueries'.refresh - geoQueries.refresh) = 1
    ]_vars

\* the tracker has taken a sample 15 km away and asked for a refresh
C8_Witness ==
  /\ ev.type = "trackerPosition"
  /\ ev.tracker = "moved"
  /\ ev.sample = PFar
  /\ lastKnownPosition = PFar
  /\ currentLocation = PFar
  /\ geoQueries.refresh = 1
  /\ isLiveTrackingEnabled /\ gpsOverride = NULL

\* C9 as claimed: the first sample delivered after startGPSTracking only
\* stores the position and triggers no refresh, whatever lastKnownPosition was.
C9_FirstSampleOnlyStores ==
  [][(ev'.type = "trackerPosition" /\ firstSamplePending) =>
       /\ lastKnownPosition' = ev'.sample
       /\ ev'.refreshes = 0
       /\ Len(rebuilds') = Len(rebuilds)
    ]_vars

\* C9 amended: the first sample delivered after startGPSTracking only stores
\* the position when lastKnownPosition is null; otherwise it is compared with
\* lastKnownPosition like any other sample: beyond the threshold it is stored
\* and triggers one refresh, within it nothing changes.
C9_FirstSampleComparedUnlessNull ==
  [][(ev'.type = "trackerPosition" /\ firstSamplePending) =>
       IF lastKnownPosition = NULL
       THEN /\ lastKnownPosition' = ev'.sample
            /\ currentLocation' = ev'.sample
            /\ ev'.refreshes = 0
            /\ Len(rebuilds') = Len(rebuilds)
            /\ geoQueries'.refresh = geoQueries.refresh
       ELSE IF calculateDistance(lastKnownPosition, ev'.sample)
                 > GPS_DISTANCE_THRESHOLD * 1000
       THEN /\ lastKnownPosition' = ev'.sample
            /\ currentLocation' = ev'.sample
            /\ ev'.refreshes = 1
       ELSE /\ lastKnownPosition' = lastKnownPosition
            /\ currentLocation' = currentLocation
            /\ ev'.refreshes = 0
            /\ Len(rebuilds') = Len(rebuilds)
    ]_vars

\* a sample arrived while no position was stored and was only stored
C9_Witness ==
  /\ ev.type = "trackerPosition"
  /\ ev.tracker = "first"
  /\ ev.refreshes = 0
  /\ lastKnownPosition = ev.sample
  /\ ~firstSamplePending

\* C10: when getLatLonOnce finds no geolocation API, or its position query
\* reports an error, it resolves with FALLBACK (the caller rebuilds the grid
\* there) and both currentLocation and lastKnownPosition are FALLBACK.
C10_FailureFallsBack ==
  ev.once \in {"unavailable", "error"} =>
    /\ currentLocation = FALLBACK
    /\ lastKnownPosition = FALLBACK
    /\ Len(rebuilds) > 0
    /\ rebuilds[Len(rebuilds)].lat = FALLBACK.lat
    /\ rebuilds[Len(rebuilds)].lon = FALLBACK.lon

\* C11: the fallback-location notice is shown at most once in a session,
\* however many location queries fail or find the API unavailable.
C11_AlertAtMostOnce == alerts <= 1

\* a callback of the tracker: the interval tick or the settlement of the
\* position query a tick issued
TrackerCallbacks == {"trackerTick", "trackerPosition", "trackerError"}

\* C12: between stopGPSTracking and the next startGPSTracking no tracker
\* callback runs, the position callback of a query issued before the stop
\* included, and so the tracker schedules no grid rebuild.
C12_NoCallbackAfterStop ==
  [][gpsTrackingIntervalId = 0 => ev'.type \notin TrackerCallbacks]_vars

\* C13: for a latitude inside the Mercator range, a longitude of [-180, 180]
\* (180 included) and any zoom, latLonToTile returns tile indices in
\* [0, 2^zoom) and pixel offsets in [0, tileSize).
C13_ProjectionInRange ==
  proj # NULL =>
    /\ 0 <= proj.tile.tileX /\ proj.tile.tileX < Pow2(proj.zoom)
    /\ 0 <= proj.tile.tileY /\ proj.tile.tileY < Pow2(proj.zoom)
    /\ 0 <= proj.tile.pixelX /\ proj.tile.pixelX < proj.tileSize
    /\ 0 <= proj.tile.pixelY /\ proj.tile.pixelY < proj.tileSize

\* the pixel offsets of the coordinate the latest rebuild was requested for
LatestOffsets ==
  latLonToTile(rebuilds[Len(rebuilds)].lat, rebuilds[Len(rebuilds)].lon,
               ZOOM_LEVEL, TILE_SIZE)

\* C14: the centre cell of the grid lies at (TILE_SIZE/2 - pixelX, SKY_HEIGHT,
\* TILE_SIZE/2 - pixelY); the cell dx columns and dy rows from the centre lies
\* at the centre's x plus dx * TILE_SIZE and the centre's z minus
\* dy * TILE_SIZE, at the same height.
C14_CellPositions ==
  \A i \in DOMAIN tileGrid :
    LET e == tileGrid[i]
        dx == e.tileX - centerTile.tileX
        dy == e.tileY - centerTile.tileY
        centre == [x |-> (TILE_SIZE \div 2) - LatestOffsets.pixelX,
                   z |-> (TILE_SIZE \div 2) - LatestOffsets.pixelY]
    IN /\ planes[e.plane].x = centre.x + dx * TILE_SIZE
       /\ planes[e.plane].y = SKY_HEIGHT
       /\ planes[e.plane].z = centre.z - dy * TILE_SIZE

\* a grid at PFar (pixel offsets 439, 511): the cell one column east and one
\* row south of the centre
C14_Witness ==
  /\ Len(tileGrid) = 9
  /\ centerTile = [tileX |-> 573, tileY |-> 747]
  /\ \E i \in DOMAIN tileGrid :
       /\ tileGrid[i].tileX = 574 /\ tileGrid[i].tileY = 748
       /\ planes[tileGrid[i].plane].x = 1061
       /\ planes[tileGrid[i].plane].z = -1011
       /\ planes[tileGrid[i].plane].y = INITIAL_SKY_HEIGHT

-----------------------------------------------------------------------------
(* Properties of the orientation filter and the render loop *)

\* the angle between the smoothed rotation and the sensor's reading
Lag == angleTo(smoothQ, deviceOrientation)

\* C15: the first frame that has an orientation sets the smoothed rotation to
\* the raw reading, so the camera's rotation is the raw reading exactly, and
\* orientationInitialized then stays true: a later frame does not snap to a
\* reading a large angle away.
C15_FirstFrameCopiesRaw ==
  [][/\ (hasDeviceOrientation /\ controls /\ ~orientationInitialized
           /\ frame' # frame)
        => /\ smoothQ' = deviceOrientation
           /\ cameraQuaternion' = deviceOrientation
           /\ orientationInitialized'
     /\ orientationInitialized => orientationInitialized'
     /\ (orientationInitialized /\ frame' # frame /\ Lag >= RampWindow)
        => smoothQ' # deviceOrientation]_vars

\* the first frame met a reading of 0.4 rad and the camera took it
C15_Witness ==
  /\ orientationInitialized
  /\ frame.filtered /\ frame.ang = 0 /\ lastT = 0
  /\ deviceOrientation = 400
  /\ smoothQ = 400 /\ cameraQuaternion = 400

\* C16: while the raw reading stays the same, whatever the frame intervals,
\* the angle between the smoothed rotation and the reading never grows, and
\* if the reading stays the same for good the angle falls below the
\* resolution of the model (one milliradian) and stays there.
C16_LagShrinks ==
  /\ [][deviceOrientation' = deviceOrientation
        => angleTo(smoothQ', deviceOrientation') <= Lag]_vars
  /\ \A q \in RawOrientations :
       <>[](deviceOrientation = q) => <>[](Lag = 0)

\* a frame that started 0.4 rad from the reading and came closer
C16_Witness ==
  /\ frame.filtered /\ frame.ang = 400
  /\ Lag > 0 /\ Lag < 400

\* C17: a frame that meets an angle of 0.25 rad or more uses tau = TAU_BASE;
\* tau always lies between TAU_BASE and TAU_SLOW; and of two consecutive
\* frames the one that meets the larger angle does not use the larger tau.
C17_TauRange ==
  [][frame'.filtered =>
       /\ frame'.ang >= RampWindow => frame'.tau = TAU_BASE
       /\ TAU_BASE <= frame'.tau /\ frame'.tau <= TAU_SLOW
       /\ (frame.filtered /\ frame'.ang >= frame.ang)
          => frame'.tau <= frame.tau]_vars

\* a frame inside the ramp (0.1 rad) followed by a frame after a jump
C17_Witness ==
  /\ frame.filtered /\ frame.ang >= RampWindow /\ frame.tau = TAU_BASE
  /\ deviceOrientation = 400

\* the scene renders the calls of the last frame made
Renders == {i \in DOMAIN frame.calls : frame.calls[i] = "render"}

-----------------------------------------------------------------------------
(* Properties of the proxy worker *)

\* C19: the worker's cache key ignores the cache-buster: two requests for the
\* same /wplace/ path that differ only in whether t is present, in its value
\* or in its place in the query get the same cache key.
C19_CacheKeyIgnoresT ==
  \A i, j \in DOMAIN workerLog :
    (/\ underWplace(workerLog[i].path)
     /\ workerLog[i].path = workerLog[j].path
     /\ workerLog[i].others = workerLog[j].others)
    => workerLog[i].key = workerLog[j].key

\* the same tile asked for with t=1 before another parameter and then
\* without t
C19_Witness ==
  /\ Len(workerLog) = 2
  /\ workerLog[1].path = workerLog[2].path
  /\ workerLog[1].query = <<[name |-> "t", value |-> "1"],
                            [name |-> "v", value |-> "2"]>>
  /\ workerLog[2].query = <<[name |-> "v", value |-> "2"]>>
  /\ workerLog[1].key = workerLog[2].key
  /\ workerLog[2].cached

-----------------------------------------------------------------------------
(* Properties of the height slider *)

\* C20: every cell of the current grid is at the current sky height;
\* setSkyHeight(h) moves every current cell to h and leaves its x, z, tile
\* indices and opacity as they were; rebuilds made afterwards create their
\* cells at h.
C20_CellsAtSkyHeight ==
  [][/\ \A i \in DOMAIN tileGrid' :
          planes'[tileGrid'[i].plane].y = SKY_HEIGHT'
     /\ SKY_HEIGHT' # SKY_HEIGHT =>
          /\ tileGrid' = tileGrid
          /\ \A i \in DOMAIN tileGrid :
               LET p == tileGrid[i].plane
               IN /\ planes'[p].y = SKY_HEIGHT'
                  /\ planes'[p].x = planes[p].x
                  /\ planes'[p].z = planes[p].z
                  /\ planes'[p].opacity = planes[p].opacity]_vars

\* the slider moved a shown grid to 350 and a rebuild made after that created
\* its cells there
C20_Witness ==
  /\ SKY_HEIGHT = 350
  /\ ev.type = "rebuild"
  /\ Len(rebuilds) = 2
  /\ \A i \in DOMAIN tileGrid : planes[tileGrid[i].plane].y = 350
  /\ \A i \in DOMAIN rebuilds[2].oldTileGrid :
       /\ planes[rebuilds[2].oldTileGrid[i].plane].y = 350
       /\ planes[rebuilds[2].oldTileGrid[i].plane].opacity = opacitySlider

-----------------------------------------------------------------------------
(* Properties of the session start *)

\* C21: when the session has started without orientation input (motion
\* permission denied or not obtainable), the application is in mouse-look
\* mode and has loaded the tile grid, on a phone whose permission request
\* was denied too.
C21_DegradesToMouseLook ==
  (started /\ ~hasDeviceOrientation) =>
    /\ controlMode = "mouse"
    /\ Len(rebuilds) > 0

-----------------------------------------------------------------------------
(* Properties of the projection *)

-----------------------------------------------------------------------------
(* Properties of the sliders during a rebuild *)

\* C23: from the start of a rebuild until its 9th fetch has settled, every
\* cell of the new grid has opacity 0 and the previous grid stays the
\* visible one and up to date (in its group, in the scene, at the sliders'
\* opacity and height), however updateTileOpacity and setSkyHeight calls
\* interleave with the pending fetches.
C23_SlidersDuringLoading ==
  \A g \in DOMAIN rebuilds :
    rebuilds[g].loadedCount < rebuilds[g].totalTiles =>
      /\ \A p \in NewMaterials(g) : planes[p].opacity = 0
      /\ OldGridIntact(g)
      /\ \A p \in OldPlanes(g) :
           /\ planes[p].opacity = opacitySlider
           /\ planes[p].y = SKY_HEIGHT

-----------------------------------------------------------------------------
(* Properties of the tracker and the override, continued *)

\* the settlements of a query getLatLonOnce issued
OnceCallbacks == {"startPosition", "refreshPosition"}

\* C24: every rebuild made while gpsOverride is set is made for the override
\* coordinate, and the result of a location query issued before the
\* override was set and delivered after it neither re-centres the grid nor
\* overwrites currentLocation or lastKnownPosition.
C24_OverrideWinsOverLateResult ==
  [][/\ (gpsOverride' # NULL /\ Len(rebuilds') > Len(rebuilds))
        => /\ rebuilds'[Len(rebuilds')].lat = gpsOverride'.lat
           /\ rebuilds'[Len(rebuilds')].lon = gpsOverride'.lon
     /\ (gpsOverride # NULL /\ ev'.type \in OnceCallbacks)
        => UNCHANGED <<currentLocation, lastKnownPosition>>]_vars

\* C25: whenever the tracking interval is active, gpsOverride is null and
\* isLiveTrackingEnabled is true: a running timer never coexists with an
\* override or with Live mode switched off.
C25_TimerOnlyInLiveMode ==
  (gpsTrackingIntervalId # 0 \/ timers # {}) =>
    /\ gpsOverride = NULL
    /\ isLiveTrackingEnabled

\* the timer restarted by the frequency select, in Live mode
C25_Witness ==
  /\ ev.type = "updateFrequency"
  /\ gpsTrackingIntervalId = 2
  /\ gpsUpdateInterval = 10
  /\ started /\ isLiveTrackingEnabled /\ gpsOverride = NULL

\* C26: at most one tracking interval is alive: every interval ever created
\* has been cleared except possibly the one whose id gpsTrackingIntervalId
\* holds, and an interval is created with the gpsUpdateInterval in effect
\* at its creation.
C26_SingleInterval ==
  [][/\ Cardinality(timers') <= 1
     /\ \A t \in timers' : t.id = gpsTrackingIntervalId'
     /\ \A t \in timers' \ timers : t.period = gpsUpdateInterval']_vars

\* the second interval of the session, running at the new period after the
\* first was cleared
C26_Witness ==
  /\ nextTimerId = 3
  /\ timers = {[id |-> 2, period |-> 10]}
  /\ gpsTrackingIntervalId = 2

\* C27: a sample delivered to the tracker in Live mode that lies no more than
\* gpsDistanceThreshold metres from lastKnownPosition (exactly the threshold
\* included) changes nothing: lastKnownPosition, currentLocation, the tile
\* grid and its pixel offsets stay as they are, no position query is issued
\* and no rebuild is made.
C27_NearSampleIsNoOp ==
  [][(/\ ev'.type = "trackerPosition"
      /\ lastKnownPosition # NULL
      /\ calculateDistance(lastKnownPosition, ev'.sample)
           <= GPS_DISTANCE_THRESHOLD * 1000) =>
       /\ UNCHANGED <<lastKnownPosition, currentLocation>>
       /\ UNCHANGED <<tileVars, netVars>>
       /\ geoQueries'.refresh = geoQueries.refresh
       /\ ev'.refreshes = 0
    ]_vars

\* the tracker was given a position exactly 15 m from the stored one
C27_Witness ==
  /\ ev.type = "trackerPosition"
  /\ ev.sample = PEdge
  /\ lastKnownPosition = POrigin
  /\ currentLocation = POrigin
  /\ ev.refreshes = 0
  /\ timers # {}
  /\ Len(rebuilds) = 1

C29_FailedTickChangesNothing ==
  [][(\/ ev'.type = "trackerError"
      \/ (ev'.type = "trackerTick" /\ ~hasGeolocation /\ gpsOverride = NULL))
       =>
       /\ UNCHANGED <<lastKnownPosition, currentLocation, alerts>>
       /\ UNCHANGED <<tileVars, netVars>>
       /\ UNCHANGED <<timers, gpsTrackingIntervalId>>
       /\ geoQueries'.refresh = geoQueries.refresh
    ]_vars

\* the tracker's query has failed while the grid was centred on PFar
C29_Witness ==
  /\ ev.type = "trackerError"
  /\ lastKnownPosition = PFar
  /\ currentLocation = PFar
  /\ timers # {}
  /\ gpsTrackingIntervalId # 0
  /\ alerts = 0

\* C30: every coordinate handed to latLonToTile by a grid rebuild has its
\* latitude inside the Mercator safe range of +-85.051128 degrees, wherever
\* it came from: geolocation, the map, or the manual inputs (which accept
\* -90 to 90).
C30_LatitudeInSafeRange ==
  \A g \in DOMAIN rebuilds :
    /\ -85051128 <= rebuilds[g].lat
    /\ rebuilds[g].lat <= 85051128

-----------------------------------------------------------------------------
(* Axis convention, index range and footprints of the grid *)

\* C31: one sign per world axis relates every cell of the grid to the canvas
\* displacement from the viewer to the cell's centre: x is sx times
\* dx*TILE_SIZE + TILE_SIZE/2 - pixelX and z is sz times
\* dy*TILE_SIZE + TILE_SIZE/2 - pixelY, for all 9 cells alike, so the centre
\* cell shifts with pixelY towards the side the dy = +1 neighbour is on.
C31_OneAxisConvention ==
  tileGrid # <<>> =>
    \E sx \in {1, -1} : \E sz \in {1, -1} :
      \A i \in DOMAIN tileGrid :
        LET e == tileGrid[i]
        IN /\ planes[e.plane].x =
                sx * (e.relativeX * TILE_SIZE + (TILE_SIZE \div 2)
                        - currentPixelOffsets.pixelX)
           /\ planes[e.plane].z =
                sz * (e.relativeY * TILE_SIZE + (TILE_SIZE \div 2)
                        - currentPixelOffsets.pixelY)

\* C32: every cell held in the tile grid, and every tile image requested, has
\* both tile indices in 0 .. 2^ZOOM_LEVEL - 1, the 8 neighbours of a centre
\* tile on the first or last row or column included.
C32_TileIndicesInRange ==
  /\ \A i \in DOMAIN tileGrid :
       /\ 0 <= tileGrid[i].tileX /\ tileGrid[i].tileX < Pow2(ZOOM_LEVEL)
       /\ 0 <= tileGrid[i].tileY /\ tileGrid[i].tileY < Pow2(ZOOM_LEVEL)
  /\ \A l \in loads :
       /\ 0 <= l.tileX /\ l.tileX < Pow2(ZOOM_LEVEL)
       /\ 0 <= l.tileY /\ l.tileY < Pow2(ZOOM_LEVEL)

\* the world positions of the cells of the grid
CellCentres == {<<planes[tileGrid[i].plane].x, planes[tileGrid[i].plane].z>> :
                  i \in DOMAIN tileGrid}

\* C33: the viewer at the origin lies within the centre cell's footprint (its
\* x and z are within TILE_SIZE/2 of 0), and the 9 cells are squares of side
\* TILE_SIZE whose centres are distinct, differ by whole multiples of
\* TILE_SIZE and fill the 3 by 3 block around the centre cell.
C33_FootprintsTile ==
  tileGrid # <<>> =>
    /\ Len(tileGrid) = 9
    /\ \E i \in DOMAIN tileGrid :
         LET c == planes[tileGrid[i].plane]
         IN /\ tileGrid[i].relativeX = 0 /\ tileGrid[i].relativeY = 0
            /\ -TILE_SIZE <= 2 * c.x /\ 2 * c.x <= TILE_SIZE
            /\ -TILE_SIZE <= 2 * c.z /\ 2 * c.z <= TILE_SIZE
            /\ CellCentres = {<<c.x + a * TILE_SIZE, c.z + b * TILE_SIZE>> :
                                a \in -1 .. 1, b \in -1 .. 1}
    /\ \A i, j \in DOMAIN tileGrid :
         i # j =>
           LET p == planes[tileGrid[i].plane]
               q == planes[tileGrid[j].plane]
           IN /\ (p.x - q.x) % TILE_SIZE = 0
              /\ (p.z - q.z) % TILE_SIZE = 0
              /\ <<p.x, p.z>> # <<q.x, q.z>>

\* a grid built for pixel offsets 999, 999: the centre cell at (-499, -499)
C33_Witness ==
  /\ Len(tileGrid) = 9
  /\ currentPixelOffsets = [pixelX |-> 999, pixelY |-> 999]
  /\ \E i \in DOMAIN tileGrid :
       /\ tileGrid[i].relativeX = 0 /\ tileGrid[i].relativeY = 0
       /\ planes[tileGrid[i].plane].x = -499
       /\ planes[tileGrid[i].plane].z = -499
  /\ Len(rebuilds) = 2

\* C34: once every fetch issued by any rebuild has settled, the scene holds
\* exactly the 9 cells of the grid requested last, all of them revealed, and
\* the cells of every earlier grid have left the scene and been disposed
\* exactly once, whatever the overlap of the rebuilds and the order in which
\* their fetches settled.
C34_LastGridWins ==
  (loads = {} /\ Len(rebuilds) > 0) =>
    LET last == Len(rebuilds) IN
    /\ Cardinality(NewMaterials(last)) = 9
    /\ VisiblePlanes = NewMaterials(last)
    /\ sceneChildren = {last}
    /\ \A p \in NewMaterials(last) :
         /\ planes[p].opacity = opacitySlider
         /\ planes[p].disposed = 0
         /\ planes[p].parent = last
    /\ \A p \in DOMAIN planes :
         GridOf(p) # last =>
           /\ planes[p].parent = 0
           /\ planes[p].disposed = 1

\* three rebuilds, each requested over the one before, with all 27 fetches
\* settled and every swap done
C34_Witness ==
  /\ Len(rebuilds) = 3
  /\ loads = {}
  /\ \A g \in DOMAIN rebuilds : rebuilds[g].swaps = 1
  /\ rebuilds[3].oldTileGroup = 2
  /\ rebuilds[2].oldTileGroup = 1
  /\ planes[PlaneId(2, 0, 0)].opacity = opacitySlider
  /\ ev.type \in {"textureLoaded", "textureError"}

-----------------------------------------------------------------------------
(* The filter's step size, the mouse, repeated Start clicks, the worker's    *)
(* cache protocol and the map picker                                         *)

\* C35: on every frame, the first one, a repeated timestamp and a timestamp
\* earlier than the last included, the elapsed time the filter uses is at
\* least 0.001 s and the blend weight dt / (tau + dt) has a positive
\* denominator and lies strictly between 0 and 1; the smoothed rotation the
\* frame leaves lies on the arc from where it started to the raw reading,
\* neither further from the reading nor past it.
C35_BlendWeightInRange ==
  [][ev'.type = "animate" =>
       /\ frame'.dt >= MinDt
       /\ frame'.filtered =>
            LET from == smoothQAtFrame(orientationInitialized, smoothQ,
                                       deviceOrientation)
            IN /\ frame'.tau + frame'.dt > 0
               /\ 0 < frame'.dt
               /\ frame'.dt < frame'.tau + frame'.dt
               /\ angleTo(from, smoothQ') + angleTo(smoothQ', deviceOrientation)
                    = angleTo(from, deviceOrientation)
    ]_vars

\* a frame whose timestamp was no later than the previous one's, with the camera
\* still 0.2 rad or more from the reading: dt took the floor
C35_Witness ==
  /\ ev.type = "animate"
  /\ frame.filtered
  /\ frame.dt = MinDt
  /\ lastT = 10
  /\ frame.ang >= 200
  /\ smoothQ # deviceOrientation

C37_StartUpRunsOnce ==
  /\ Len(rebuilds) <= 1
  /\ nextTimerId <= 2

\* C38 as claimed: the hit/miss protocol, and every request for a tile that
\* an earlier request fetched from the backend is answered with that
\* request's status without the backend being asked.
C38_AsClaimed ==
  [][Len(workerLog') > Len(workerLog) =>
       LET e == workerLog'[Len(workerLog')]
       IN \A i \in DOMAIN workerLog :
            (/\ underWplace(e.path)
             /\ workerLog[i].key = e.key
             /\ workerLog[i].upstream = 1)
            => /\ e.upstream = 0
               /\ e.status = workerLog[i].status
    ]_vars

\* C38: a request outside /wplace/ is answered 404 without the cache or the
\* backend being touched; a /wplace/ request whose normalised key is in the
\* cache (a put for it has landed) is answered with the stored status, asks
\* the backend zero times and writes nothing; one whose key is not in the
\* cache asks the backend exactly once and hands the cache a put of the
\* answer under the normalised key, whatever its status.
C38_HitMissProtocol ==
  [][Len(workerLog') > Len(workerLog) =>
       LET e == workerLog'[Len(workerLog')]
           key == cacheKeyOf(upstreamOf(e.path, e.query))
           stored == {c \in cache : c.key = key}
       IN IF ~underWplace(e.path)
          THEN /\ e.status = 404 /\ e.upstream = 0
               /\ UNCHANGED <<cache, waitUntil>>
          ELSE IF stored # {}
          THEN /\ e.upstream = 0
               /\ \A c \in stored : e.status = c.status
               /\ UNCHANGED <<cache, waitUntil>>
          ELSE /\ e.upstream = 1
               /\ waitUntil' = waitUntil \cup {[key |-> key, status |-> e.status]}
               /\ UNCHANGED cache
    ]_vars

\* a tile the backend answered 404 for, asked for again with another t after
\* the put has landed: the stored 404, and the backend not asked
C38_Witness ==
  /\ Len(workerLog) = 2
  /\ workerLog[1].path = workerLog[2].path
  /\ workerLog[1].query # workerLog[2].query
  /\ workerLog[1].upstream = 1 /\ workerLog[1].status = 404
  /\ workerLog[2].upstream = 0 /\ workerLog[2].status = 404
  /\ workerLog[2].cached
  /\ waitUntil = {}

\* C39: whenever initializeMap runs while an override is set, the position it
\* gives the picker is the override, latitude and longitude both, also for
\* an override on the equator or on the prime meridian.
C39_PickerStartsAtOverride ==
  [][(ev'.type = "initializeMap" /\ gpsOverride # NULL)
       => selectedLocation' = gpsOverride]_vars

====
